---------------------------- MODULE Spec2Model ----------------------------
(***************************************************************************)
(* Model of the EV controller's serial protocol engine                     *)
(* (src/First_version/porsche_main_application.py, with the duplicated     *)
(* protocol class of src/first_tests/standalone_test.py).                  *)
(*                                                                         *)
(* Text is a sequence of one-character strings; a byte string is a         *)
(* sequence of byte symbols.  ASCII bytes and their characters share one   *)
(* symbol; LeadByte/ContByte are the two bytes of one two-byte UTF-8       *)
(* character, EAcute.  Positions are 1-based and 0 means "not found"      *)
(* (Python: 0-based and -1).                                               *)
(*                                                                         *)
(* Time is abstract: a call's timeout elapses at some moment while the     *)
(* caller is blocked in rx_queue.get on an empty inbox and the receive     *)
(* loop has nothing to read.  Computation takes no time.                   *)
(***************************************************************************)
EXTENDS Integers, Sequences, FiniteSets, TLC

\* ------------------------------------------------------------------ text

START_CHAR == "<"
END_CHAR == ">"
SEPARATOR == ":"
PARAM_SEP == ";"
VALUE_SEP == "="

LeadByte == "xC3"
ContByte == "xA9"
EAcute == "U+E9"

Digits == <<"0", "1", "2", "3", "4", "5", "6", "7", "8", "9">>

IsDigit(ch) == \E i \in 1..10 : Digits[i] = ch

DigitValue(ch) == (CHOOSE i \in 1..10 : Digits[i] = ch) - 1

Contains(s, ch) == \E i \in 1..Len(s) : s[i] = ch

\* str.find(ch, from): the first position >= from holding ch, 0 when none.
Find(s, ch, from) ==
  IF \E i \in from..Len(s) : i >= 1 /\ s[i] = ch
  THEN CHOOSE i \in from..Len(s) :
         /\ i >= 1
         /\ s[i] = ch
         /\ \A j \in from..(i - 1) : j >= 1 => s[j] # ch
  ELSE 0

Count(s, ch) == Cardinality({i \in 1..Len(s) : s[i] = ch})

RECURSIVE Concat(_)
Concat(ss) == IF ss = <<>> THEN <<>> ELSE Head(ss) \o Concat(Tail(ss))

\* bytes.decode('utf-8', errors='ignore') of one chunk: a lead byte with its
\* continuation byte right after it is one character; a lead byte with
\* anything else after it (or nothing) and a continuation byte on its own
\* are dropped.  DecodeAt is what the byte at position i contributes.
Dropped == ""

DecodeAt(bytes, i) ==
  IF bytes[i] = LeadByte
  THEN IF i < Len(bytes) /\ bytes[i + 1] = ContByte THEN EAcute ELSE Dropped
  ELSE IF bytes[i] = ContByte THEN Dropped ELSE bytes[i]

IsKept(ch) == ch # Dropped

Decode(bytes) ==
  SelectSeq([i \in 1..Len(bytes) |-> DecodeAt(bytes, i)], IsKept)

\* str.lstrip(ch) / str.rstrip(ch): every leading / trailing ch goes.
RECURSIVE LStrip(_, _)
LStrip(s, ch) ==
  IF s # <<>> /\ Head(s) = ch THEN LStrip(Tail(s), ch) ELSE s

RECURSIVE RStrip(_, _)
RStrip(s, ch) ==
  IF s # <<>> /\ s[Len(s)] = ch THEN RStrip(SubSeq(s, 1, Len(s) - 1), ch) ELSE s

\* str.split(sep): the pieces between every occurrence of sep.
RECURSIVE Split(_, _)
Split(s, sep) ==
  LET i == Find(s, sep, 1)
  IN IF i = 0 THEN <<s>>
     ELSE <<SubSeq(s, 1, i - 1)>> \o Split(SubSeq(s, i + 1, Len(s)), sep)

\* str.split(sep, 1) of a string that holds sep: cut at the first one only.
SplitFirst(s, sep) ==
  LET i == Find(s, sep, 1)
  IN <<SubSeq(s, 1, i - 1), SubSeq(s, i + 1, Len(s))>>

\* ---------------------------------------------------------------- values

\* Throughout, the fields of a record are written in the order in which TLC
\* keeps them (that of the names' first appearance in the module), so that a
\* record is never reordered in place while two workers read it.
\* A payload value as Python holds it: an int, a float (n / 10^d, with no
\* trailing zero in the fraction), a str or the bool True.
IntVal(n) == [s |-> <<>>, n |-> n, tag |-> "int", d |-> 0]

RECURSIVE FloatVal(_, _)
FloatVal(n, d) ==
  IF d > 0 /\ n % 10 = 0 THEN FloatVal(n \div 10, d - 1)
  ELSE [s |-> <<>>, n |-> n, tag |-> "float", d |-> d]

StrVal(s) == [s |-> s, n |-> 0, tag |-> "str", d |-> 0]

TrueVal == [s |-> <<>>, n |-> 1, tag |-> "bool", d |-> 0]

IsNumber(v) == v.tag \in {"int", "float", "bool"}

RECURSIVE Pow10(_)
Pow10(k) == IF k = 0 THEN 1 ELSE 10 * Pow10(k - 1)

\* Python's a == b and a > b on numbers (bool counts as the int 1).
NumEq(a, b) == a.n * Pow10(b.d) = b.n * Pow10(a.d)

NumGT(a, b) == a.n * Pow10(b.d) > b.n * Pow10(a.d)

ValEq(a, b) ==
  IF IsNumber(a) /\ IsNumber(b) THEN NumEq(a, b)
  ELSE a.tag = b.tag /\ a.s = b.s

\* A run of digits in which single underscores may separate digits.
IsDigitPart(t) ==
  /\ t # <<>>
  /\ IsDigit(t[1])
  /\ IsDigit(t[Len(t)])
  /\ \A i \in 1..Len(t) : IsDigit(t[i]) \/ t[i] = "_"
  /\ \A i \in 1..(Len(t) - 1) : ~(t[i] = "_" /\ t[i + 1] = "_")

DigitsOf(t) == SelectSeq(t, IsDigit)

RECURSIVE NatOf(_)
NatOf(ds) ==
  IF ds = <<>> THEN 0
  ELSE 10 * NatOf(SubSeq(ds, 1, Len(ds) - 1)) + DigitValue(ds[Len(ds)])

HasSign(t) == t # <<>> /\ Head(t) \in {"+", "-"}

Unsigned(t) == IF HasSign(t) THEN Tail(t) ELSE t

Signed(t, n) == IF HasSign(t) /\ Head(t) = "-" THEN 0 - n ELSE n

\* int(value) succeeds: an optional sign and a digit part.  (Whitespace and
\* non-ASCII digits, which int() also takes, are in no input alphabet.)
IsIntText(value) == IsDigitPart(Unsigned(value))

IntOf(value) == Signed(value, NatOf(DigitsOf(Unsigned(value))))

\* float(value) succeeds, for a value that holds '.': digit parts around one
\* point, one of them possibly empty.  (Exponent forms are in no input
\* alphabet.)
IsFloatText(value) ==
  LET u == Unsigned(value)
      i == Find(u, ".", 1)
      ip == SubSeq(u, 1, i - 1)
      fp == SubSeq(u, i + 1, Len(u))
  IN /\ i > 0
     /\ ip = <<>> \/ IsDigitPart(ip)
     /\ fp = <<>> \/ IsDigitPart(fp)
     /\ ip # <<>> \/ fp # <<>>

FloatOf(value) ==
  LET u == Unsigned(value)
      i == Find(u, ".", 1)
      ip == DigitsOf(SubSeq(u, 1, i - 1))
      fp == DigitsOf(SubSeq(u, i + 1, Len(u)))
  IN FloatVal(Signed(value, NatOf(ip \o fp)), Len(fp))

\* The try/except around float()/int() in _parse_message.
ParseValue(value) ==
  IF Contains(value, ".")
  THEN IF IsFloatText(value) THEN FloatOf(value) ELSE StrVal(value)
  ELSE IF IsIntText(value) THEN IntVal(IntOf(value)) ELSE StrVal(value)

\* ------------------------------------------------------------- dict, codec

EmptyDict == [k \in {} |-> TrueVal]

\* d[key] = val
DictSet(d, key, val) ==
  [k \in DOMAIN d \cup {key} |-> IF k = key THEN val ELSE d[k]]

\* d.update(e)
DictUpdate(d, e) ==
  [k \in DOMAIN d \cup DOMAIN e |-> IF k \in DOMAIN e THEN e[k] ELSE d[k]]

\* d.get(key, default)
DictGet(d, key, default) == IF key \in DOMAIN d THEN d[key] ELSE default

\* A for loop over params in which the first occurrence of a key stays.
RECURSIVE ParamsToData_KeepsFirst(_)
ParamsToData_KeepsFirst(params) ==
  IF params = <<>> THEN EmptyDict
  ELSE LET back == ParamsToData_KeepsFirst(Tail(params))
           param == Head(params)
       IN IF Contains(param, VALUE_SEP)
          THEN LET kv == SplitFirst(param, VALUE_SEP)
               IN DictSet(back, kv[1], ParseValue(kv[2]))
          ELSE DictSet(back, param, TrueVal)

\* The for loop over params: later occurrences of a key overwrite.
RECURSIVE ParamsToData(_)
ParamsToData(params) ==
  IF params = <<>> THEN EmptyDict
  ELSE LET front == ParamsToData(SubSeq(params, 1, Len(params) - 1))
           param == params[Len(params)]
       IN IF Contains(param, VALUE_SEP)
          THEN LET kv == SplitFirst(param, VALUE_SEP)
               IN DictSet(front, kv[1], ParseValue(kv[2]))
          ELSE DictSet(front, param, TrueVal)

\* _parse_message.  strip() changes nothing: an extracted frame starts with
\* '<' and ends with '>'.  The timestamp / raw fields are read by no code and
\* are left out.  No statement in the try block raises past the inner
\* except, so the result is never None.
ParseMessage(message) ==
  LET m == RStrip(LStrip(message, START_CHAR), END_CHAR)
      hasSep == Contains(m, SEPARATOR)
      msg_type == IF hasSep THEN SplitFirst(m, SEPARATOR)[1] ELSE m
      data_str == IF hasSep THEN SplitFirst(m, SEPARATOR)[2] ELSE <<>>
  IN [type |-> msg_type,
      data |-> IF data_str # <<>>
               THEN ParamsToData(Split(data_str, PARAM_SEP))
               ELSE EmptyDict]

\* str(int)
RECURSIVE NatText(_)
NatText(n) ==
  IF n < 10 THEN <<Digits[n + 1]>>
  ELSE NatText(n \div 10) \o <<Digits[(n % 10) + 1]>>

IntText(n) == IF n < 0 THEN <<"-">> \o NatText(0 - n) ELSE NatText(n)

\* The d digits of a fraction, zero-padded on the left.
RECURSIVE FracText(_, _)
FracText(n, d) ==
  IF d = 0 THEN <<>>
  ELSE FracText(n \div 10, d - 1) \o <<Digits[(n % 10) + 1]>>

\* str(v) as the f-string of _build_message formats it (floats in the
\* positional form repr gives below 1e16).
ValText(v) ==
  CASE v.tag = "int" -> IntText(v.n)
    [] v.tag = "float" ->
         LET a == IF v.n < 0 THEN 0 - v.n ELSE v.n
             sign == IF v.n < 0 THEN <<"-">> ELSE <<>>
         IN sign \o NatText(a \div Pow10(v.d)) \o <<".">>
              \o (IF v.d = 0 THEN <<"0">> ELSE FracText(a % Pow10(v.d), v.d))
    [] v.tag = "bool" -> <<"T", "r", "u", "e">>
    [] OTHER -> v.s

\* _build_message: params is a sequence of <<key, value>> pairs (a dict in
\* insertion order); an empty one adds no payload section.
RECURSIVE JoinParams(_)
JoinParams(params) ==
  IF params = <<>> THEN <<>>
  ELSE LET p == params[1]
           one == p[1] \o <<VALUE_SEP>> \o ValText(p[2])
       IN IF Len(params) = 1 THEN one
          ELSE one \o <<PARAM_SEP>> \o JoinParams(Tail(params))

BuildMessage(msg_type, params) ==
  <<START_CHAR>> \o msg_type
    \o (IF params # <<>> THEN <<SEPARATOR>> \o JoinParams(params) ELSE <<>>)
    \o <<END_CHAR>>

\* ------------------------------------------------------ protocol vocabulary

\* MessageType (the enum's values) and the payload keys and fault names the
\* controller uses, as text.
SET_MAX_CURRENT == <<"S", "E", "T", "_", "M", "A", "X", "_", "C", "U", "R", "R", "E", "N", "T">>

SET_CURRENT_LIMIT == <<"S", "E", "T", "_", "C", "U", "R", "R", "E", "N", "T", "_", "L", "I", "M", "I", "T">>

EMERGENCY_STOP == <<"E", "S", "T", "O", "P">>

RESET_FAULT == <<"R", "E", "S", "E", "T", "_", "F", "A", "U", "L", "T">>

SET_SPEED == <<"S", "E", "T", "_", "S", "P", "E", "E", "D">>

SET_TORQUE == <<"S", "E", "T", "_", "T", "O", "R", "Q", "U", "E">>

GET_TELEMETRY == <<"G", "E", "T", "_", "T", "E", "L", "E", "M">>

DATA == <<"D", "A", "T", "A">>

ACK == <<"A", "C", "K">>

NACK == <<"N", "A", "C", "K">>

FAULT == <<"F", "A", "U", "L", "T">>

SPEED == <<"S", "P", "E", "E", "D">>

TORQUE == <<"T", "O", "R", "Q", "U", "E">>

MAX_THROTTLE == <<"M", "A", "X", "_", "T", "H", "R", "O", "T", "T", "L", "E">>

LIMIT == <<"L", "I", "M", "I", "T">>

TEMP == <<"T", "E", "M", "P">>

SOC == <<"S", "O", "C">>

CMD == <<"C", "M", "D">>

REASON == <<"R", "E", "A", "S", "O", "N">>

UNKNOWN == <<"U", "N", "K", "N", "O", "W", "N">>

OVERHEAT == <<"O", "V", "E", "R", "H", "E", "A", "T">>

LOW_BATTERY == <<"L", "O", "W", "_", "B", "A", "T", "T", "E", "R", "Y">>

\* ------------------------------------------------------------------ state

Callers == {"ui", "aux"}

\* The threads that write to the port: the telemetry loop, a caller, and the
\* receive thread (the emergency stop of the fault subscriber).
Writers == {"telemetry", "ui", "rx"}

VARIABLES
  wire_in,    \* bytes the peer has written that the controller has not read
  wire_out,   \* the frames the controller has written to the link, in order
  buffer,     \* _receive_loop's local text buffer
  rx_pc,      \* _receive_loop: "outer" (at the outer while), "inner"
  running,    \* EVProtocol.running
  rx_queue,   \* EVProtocol.rx_queue, the inbox
  callbacks,  \* EVProtocol.callbacks: kind -> handler
  telemetry,  \* EVController.telemetry
  faults,     \* EVController.faults
  connected,  \* EVController.connected
  config,     \* ConfigManager.config (the keys the controller reads)
  pc,         \* per caller: "idle", "loop", "get", "acked", "done"
  op,         \* per caller: the command method it is in
  arg,        \* per caller: the value it passes
  expired,    \* per caller: time.time() - start_time has reached timeout
  result,     \* per caller: what the method returned
  peer_log,   \* the peer's answer to each frame of wire_out it has handled
  budget,     \* what is left of the bounds on calls and peer frames
  rxh,        \* history (kept when rxh.on): what the receive loop read,
              \* emitted (log) and put in the inbox (put), and the buffer,
              \* chunk and count of frames at its latest read
  cb_log,     \* history (kept when rxh.on): the callbacks invoked, in order,
              \* each with the controller's state before and after it and,
              \* for a FAULT, whether the link took writes then
  ch,         \* history, per caller, of the current call
  serial_open, \* EVProtocol.serial is open (close() has not been called)
  sd_pc,      \* EVController.shutdown: "none" (not called), "estop" (the
              \* emergency stop is done), "stop" (inside protocol.stop, at
              \* the join), "closed" (returned), "failed" (raised)
  sd_log,     \* history: what shutdown and stop have done, in order
  rx_errors,  \* history: the buffer at each transport error the receive
              \* loop has caught
  reg_log,    \* history: the calls of register_callback, in order
  sim,        \* the simulator: its state dict (speed and torque in percent,
              \* rpm and current in hundredths), and history: stopped (ESTOP
              \* was the last of ESTOP, SET_SPEED, SET_TORQUE it handled),
              \* steps (physics steps so far), last (the RPM it last
              \* reported, in tenths, and stopped at that moment)
  probe,      \* the kind and payload handed to _build_message, when the
              \* link echoes what is written (otherwise NoProbe)
  tx          \* the link at the level of bytes: the bytes the port has
              \* taken, per writing thread the bytes of its frame the port
              \* has not taken yet, and history: the frames handed to
              \* serial.write, in order, and whether a write was taken in
              \* parts

rx_vars == <<wire_in, buffer, rx_pc, running, rx_queue, callbacks, rxh, cb_log>>

ctl_vars == <<telemetry, faults, connected, config>>

call_vars == <<pc, op, arg, expired, result, ch>>

sys_vars == <<serial_open, sd_pc, sd_log, rx_errors, reg_log, sim, probe, tx>>

vars == <<wire_in, wire_out, buffer, rx_pc, running, rx_queue, callbacks,
          telemetry, faults, connected, config, pc, op, arg, expired,
          result, peer_log, budget, rxh, cb_log, ch, serial_open, sd_pc,
          sd_log, rx_errors, reg_log, sim, probe, tx>>

\* ----------------------------------------------------------- frame extraction

\* The inner while's condition.
LoopCond(buf) == Contains(buf, START_CHAR) /\ Contains(buf, END_CHAR)

\* One pass of the inner while's body: start and end as find() gives them,
\* and, when end > start, the frame cut out and what is left of the buffer.
ExtractStep(buf) ==
  LET start == Find(buf, START_CHAR, 1)
      end == Find(buf, END_CHAR, start)
  IN [message |-> SubSeq(buf, start, end),
      found |-> end > start,
      rest |-> SubSeq(buf, end + 1, Len(buf))]

\* The inner while run to its end on one buffer: the frames it emits, in
\* order, and the buffer it leaves.
RECURSIVE ExtractAll(_)
ExtractAll(buf) ==
  IF LoopCond(buf) /\ ExtractStep(buf).found
  THEN LET x == ExtractStep(buf)
           more == ExtractAll(x.rest)
       IN [rest |-> more.rest, frames |-> <<x.message>> \o more.frames]
  ELSE [rest |-> buf, frames |-> <<>>]

\* ------------------------------------------------------------ the controller

\* A membership test that never finds anything.
InList_Never(list, x) == FALSE

\* x in list, by Python's ==.
InList(list, x) == \E i \in 1..Len(list) : ValEq(list[i], x)

\* send_message: build the frame and write it; a write that raises sends
\* nothing and returns False.
SendMessage(out, msg_type, params, tx_ok) ==
  IF tx_ok THEN Append(out, BuildMessage(msg_type, params)) ELSE out

NotOverheat(v) == v # StrVal(OVERHEAT)

\* A safety check that takes OVERHEAT off the list when the temperature is
\* not above the threshold.
CheckSafety_Clears(fl, tel, cfg) ==
  LET temp == DictGet(tel, TEMP, IntVal(0))
      soc == DictGet(tel, SOC, IntVal(100))
      hot == IsNumber(temp) /\ NumGT(temp, cfg.overheat_threshold)
      f1 == IF hot
            THEN (IF InList(fl, StrVal(OVERHEAT)) THEN fl
                  ELSE Append(fl, StrVal(OVERHEAT)))
            ELSE SelectSeq(fl, NotOverheat)
      low == IsNumber(soc) /\ NumGT(cfg.low_battery_threshold, soc)
      f2 == IF low /\ ~InList(f1, StrVal(LOW_BATTERY))
            THEN Append(f1, StrVal(LOW_BATTERY)) ELSE f1
  IN IF ~IsNumber(temp) THEN [faults |-> fl, raised |-> TRUE]
     ELSE IF ~IsNumber(soc) THEN [faults |-> f1, raised |-> TRUE]
     ELSE [faults |-> f2, raised |-> FALSE]

\* _check_safety_conditions on the merged telemetry.  Comparing a str with
\* the threshold raises TypeError, which ends the callback where it stands.
CheckSafety(fl, tel, cfg) ==
  LET temp == DictGet(tel, TEMP, IntVal(0))
      soc == DictGet(tel, SOC, IntVal(100))
      hot == IsNumber(temp) /\ NumGT(temp, cfg.overheat_threshold)
      f1 == IF hot /\ ~InList(fl, StrVal(OVERHEAT))
            THEN Append(fl, StrVal(OVERHEAT)) ELSE fl
      low == IsNumber(soc) /\ NumGT(cfg.low_battery_threshold, soc)
      f2 == IF low /\ ~InList(f1, StrVal(LOW_BATTERY))
            THEN Append(f1, StrVal(LOW_BATTERY)) ELSE f1
  IN IF ~IsNumber(temp) THEN [faults |-> fl, raised |-> TRUE]
     ELSE IF ~IsNumber(soc) THEN [faults |-> f1, raised |-> TRUE]
     ELSE [faults |-> f2, raised |-> FALSE]

\* A telemetry handler that leaves the connected flag as it finds it.
HandleTelemetry_KeepsFlag(cs, msg, cfg) ==
  LET tel == DictUpdate(cs.telemetry, msg.data)
      chk == CheckSafety(cs.faults, tel, cfg)
  IN [wire_out |-> cs.wire_out, telemetry |-> tel, faults |-> chk.faults,
      connected |-> cs.connected, raised |-> chk.raised]

\* _handle_telemetry (the CSV logger is off unless the operator starts it,
\* and writes nothing the controller reads).
HandleTelemetry(cs, msg, cfg) ==
  LET tel == DictUpdate(cs.telemetry, msg.data)
      chk == CheckSafety(cs.faults, tel, cfg)
  IN [wire_out |-> cs.wire_out, telemetry |-> tel, faults |-> chk.faults,
      connected |-> TRUE, raised |-> chk.raised]

\* emergency_stop
EmergencyStop(out, tx_ok) == SendMessage(out, EMERGENCY_STOP, <<>>, tx_ok)

\* _handle_fault
HandleFault(cs, msg, cfg, tx_ok) ==
  LET fault == DictGet(msg.data, FAULT, StrVal(UNKNOWN))
      new == ~InList(cs.faults, fault)
  IN [wire_out |-> IF new /\ cfg.emergency_stop_on_fault
                   THEN EmergencyStop(cs.wire_out, tx_ok) ELSE cs.wire_out,
      telemetry |-> cs.telemetry,
      faults |-> IF new THEN Append(cs.faults, fault) ELSE cs.faults,
      connected |-> cs.connected,
      raised |-> FALSE]

\* _handle_ack (pass) and _handle_nack (prints the command and the reason).
HandleNone(cs) ==
  [wire_out |-> cs.wire_out, telemetry |-> cs.telemetry,
   faults |-> cs.faults, connected |-> cs.connected, raised |-> FALSE]

\* The standalone script's _handle_telemetry: the merge alone.  (Its
\* _handle_fault only prints.)
StandaloneTelemetry(cs, msg) ==
  [HandleNone(cs) EXCEPT !.telemetry = DictUpdate(cs.telemetry, msg.data)]

\* A dispatcher that hands a message of a kind nobody subscribed to to the
\* fault handler.
TriggerCallback_DefaultHandler(cbs, cs, msg, cfg, tx_ok) ==
  IF msg.type \notin DOMAIN cbs THEN HandleFault(cs, msg, cfg, tx_ok)
  ELSE CASE cbs[msg.type] = "_handle_telemetry" -> HandleTelemetry(cs, msg, cfg)
         [] cbs[msg.type] = "_handle_fault" -> HandleFault(cs, msg, cfg, tx_ok)
         [] cbs[msg.type] = "standalone._handle_telemetry" ->
              StandaloneTelemetry(cs, msg)
         [] OTHER -> HandleNone(cs)

\* A dispatcher that takes the message to hand on back out of the inbox: a
\* caller that is waiting for an acknowledgement has taken it first, and the
\* subscriber gets nothing.
TriggerCallback_FromInbox(cbs, cs, msg, cfg, tx_ok) ==
  IF msg.type \notin DOMAIN cbs \/ (\E c \in DOMAIN pc : pc[c] \in {"loop", "get"})
  THEN HandleNone(cs)
  ELSE CASE cbs[msg.type] = "_handle_telemetry" -> HandleTelemetry(cs, msg, cfg)
         [] cbs[msg.type] = "_handle_fault" -> HandleFault(cs, msg, cfg, tx_ok)
         [] cbs[msg.type] = "standalone._handle_telemetry" ->
              StandaloneTelemetry(cs, msg)
         [] OTHER -> HandleNone(cs)

\* _trigger_callback: the handler registered for the message's kind, if any,
\* inside try/except.
TriggerCallback(cbs, cs, msg, cfg, tx_ok) ==
  IF msg.type \notin DOMAIN cbs THEN HandleNone(cs)
  ELSE CASE cbs[msg.type] = "_handle_telemetry" -> HandleTelemetry(cs, msg, cfg)
         [] cbs[msg.type] = "_handle_fault" -> HandleFault(cs, msg, cfg, tx_ok)
         [] cbs[msg.type] = "standalone._handle_telemetry" ->
              StandaloneTelemetry(cs, msg)
         [] OTHER -> HandleNone(cs)

\* The callbacks EVController.__init__ registers.
InitCallbacks ==
  [k \in {DATA, FAULT, ACK, NACK} |->
     CASE k = DATA -> "_handle_telemetry"
       [] k = FAULT -> "_handle_fault"
       [] k = ACK -> "_handle_ack"
       [] OTHER -> "_handle_nack"]

\* The callbacks the standalone script's EVController.__init__ registers.
StandaloneCallbacks ==
  [k \in {DATA, FAULT} |->
     IF k = DATA THEN "standalone._handle_telemetry"
     ELSE "standalone._handle_fault"]

\* ConfigManager.load_config's defaults; the file may set the flag either way.
DefaultConfig(estop) ==
  [overheat_threshold |-> FloatVal(80, 0),
   low_battery_threshold |-> FloatVal(15, 0),
   emergency_stop_on_fault |-> estop,
   max_throttle |-> IntVal(100),
   current_limit |-> FloatVal(50, 0)]

\* ------------------------------------------------------------ the commands

\* The confirmed commands of the main application's EVController and of
\* the standalone script's.
MainOps == {"set_max_throttle", "set_current_limit", "reset_faults"}

StandaloneOps == {"set_speed", "set_torque"}

\* The activities that issue commands in the main application: the
\* operator's menu sets the limits, a second activity resets faults.
OpsOf(c) ==
  IF c = "ui" THEN {"set_max_throttle", "set_current_limit"}
  ELSE {"reset_faults"}

\* The MessageType each command method sends.
CmdKind(o) ==
  CASE o = "set_max_throttle" -> SET_MAX_CURRENT
    [] o = "set_current_limit" -> SET_CURRENT_LIMIT
    [] o = "set_speed" -> SET_SPEED
    [] o = "set_torque" -> SET_TORQUE
    [] OTHER -> RESET_FAULT

Min(a, b) == IF a < b THEN a ELSE b

Max(a, b) == IF a > b THEN a ELSE b

\* The value a method works with: set_max_throttle clamps to 0..100.
CmdValue(o, a) ==
  IF o = "set_max_throttle" THEN IntVal(Max(0, Min(100, a.n))) ELSE a

\* The params dict each command method passes to send_message.
CmdParams(o, v) ==
  CASE o = "set_max_throttle" -> <<<<MAX_THROTTLE, v>>>>
    [] o = "set_current_limit" -> <<<<LIMIT, v>>>>
    [] o = "set_speed" -> <<<<SPEED, v>>>>
    [] o = "set_torque" -> <<<<TORQUE, v>>>>
    [] OTHER -> <<>>

\* A wait_for_ack that looks for the command as a key only.
AckMatches_KeyOnly(msg, command) ==
  /\ msg.type = ACK
  /\ command \in DOMAIN msg.data

\* wait_for_ack's test of one inbox message.
AckMatches(msg, command) ==
  /\ msg.type = ACK
  /\ \/ command \in DOMAIN msg.data
     \/ ValEq(DictGet(msg.data, ACK, TrueVal), StrVal(command))

\* --------------------------------------------------------- the receive loop

\* serial.write inside send_message: it may raise at any time, and it raises
\* once the port is closed.
LinkOutcomes == IF serial_open THEN BOOLEAN ELSE {FALSE}

CtlState == [wire_out |-> wire_out, telemetry |-> telemetry,
             faults |-> faults, connected |-> connected]

\* Lines 81-83: read what is waiting (n bytes of it), decode the chunk and
\* append it to the buffer.
RxRead(n) ==
  /\ running
  /\ rx_pc = "outer"
  /\ n \in 1..Len(wire_in)
  /\ LET data == Decode(SubSeq(wire_in, 1, n))
     IN /\ buffer' = buffer \o data
        /\ rxh' = IF rxh.on
                  THEN [rxh EXCEPT !.bytes = @ \o SubSeq(wire_in, 1, n),
                                   !.text = @ \o data,
                                   !.buf0 = buffer,
                                   !.data = data,
                                   !.n0 = Len(rxh.log)]
                  ELSE rxh
  /\ wire_in' = SubSeq(wire_in, n + 1, Len(wire_in))
  /\ rx_pc' = "inner"
  /\ UNCHANGED <<wire_out, running, rx_queue, callbacks, cb_log, peer_log,
                 budget>>
  /\ UNCHANGED ctl_vars
  /\ UNCHANGED call_vars
  /\ UNCHANGED sys_vars

\* An acknowledgement that names command: its payload holds the key command
\* or the pair ACK=command.
IsAckFor(msg, command) ==
  /\ msg.type = ACK
  /\ \/ command \in DOMAIN msg.data
     \/ ACK \in DOMAIN msg.data /\ msg.data[ACK] = StrVal(command)

\* A negative acknowledgement of command: its CMD names it.
IsNackFor(msg, command) ==
  /\ msg.type = NACK
  /\ CMD \in DOMAIN msg.data
  /\ msg.data[CMD] = StrVal(command)

\* What a put of msg into the inbox means for the call caller c is in:
\* an acknowledgement of its command has arrived (in_time: before its timeout
\* elapsed), or a negative acknowledgement has.
NotePut(h, c, msg) ==
  IF pc[c] \notin {"loop", "get"} THEN h
  ELSE [h EXCEPT !.arrived = @ \/ IsAckFor(msg, CmdKind(op[c])),
                 !.in_time = @ \/ (IsAckFor(msg, CmdKind(op[c])) /\ ~expired[c]),
                 !.nacked = @ \/ IsNackFor(msg, CmdKind(op[c]))]

\* One pass of the inner while in which an exception of the subscriber is
\* not caught by _trigger_callback: it reaches the except of the receive
\* loop, which leaves the inner while.
RxExtract_Propagates ==
  /\ rx_pc = "inner"
  /\ LoopCond(buffer)
  /\ ExtractStep(buffer).found
  /\ \E tx_ok \in LinkOutcomes :
       LET x == ExtractStep(buffer)
           parsed == ParseMessage(x.message)
           after == TriggerCallback(callbacks, CtlState, parsed, config, tx_ok)
       IN /\ rx_pc' = IF after.raised THEN "outer" ELSE rx_pc
          /\ buffer' = x.rest
          /\ rx_queue' = Append(rx_queue, parsed)
          /\ telemetry' = after.telemetry
          /\ faults' = after.faults
          /\ connected' = after.connected
          /\ wire_out' = after.wire_out
          /\ rxh' = IF rxh.on THEN [rxh EXCEPT !.log = Append(@, x.message),
                                               !.put = Append(@, parsed)]
                     ELSE rxh
          /\ cb_log' = IF rxh.on /\ parsed.type \in DOMAIN callbacks
                       THEN Append(cb_log, [raised |-> after.raised,
                                            msg |-> parsed,
                                            after |-> after,
                                            handler |-> callbacks[parsed.type],
                                            link_ok |->
                                              \/ tx_ok
                                              \/ parsed.type # FAULT,
                                            before |-> CtlState])
                       ELSE cb_log
          /\ ch' = [c \in Callers |-> NotePut(ch[c], c, parsed)]
  /\ UNCHANGED <<wire_in, running, callbacks, config, peer_log, budget>>
  /\ UNCHANGED <<pc, op, arg, expired, result>>
  /\ UNCHANGED sys_vars

\* One pass of the inner while in which the emergency stop of the fault
\* subscriber waits for its acknowledgement on the receive thread: nothing is
\* read meanwhile, and the wait takes everything out of the inbox.
RxExtract_EstopWaits ==
  /\ rx_pc = "inner"
  /\ LoopCond(buffer)
  /\ ExtractStep(buffer).found
  /\ \E tx_ok \in LinkOutcomes :
       LET x == ExtractStep(buffer)
           parsed == ParseMessage(x.message)
           after == TriggerCallback(callbacks, CtlState, parsed, config, tx_ok)
       IN /\ buffer' = x.rest
          /\ rx_queue' = IF after.wire_out # wire_out /\ parsed.type = FAULT
                       THEN <<>> ELSE Append(rx_queue, parsed)
          /\ telemetry' = after.telemetry
          /\ faults' = after.faults
          /\ connected' = after.connected
          /\ wire_out' = after.wire_out
          /\ rxh' = IF rxh.on THEN [rxh EXCEPT !.log = Append(@, x.message),
                                               !.put = Append(@, parsed)]
                     ELSE rxh
          /\ cb_log' = IF rxh.on /\ parsed.type \in DOMAIN callbacks
                       THEN Append(cb_log, [raised |-> after.raised,
                                            msg |-> parsed,
                                            after |-> after,
                                            handler |-> callbacks[parsed.type],
                                            link_ok |->
                                              \/ tx_ok
                                              \/ parsed.type # FAULT,
                                            before |-> CtlState])
                       ELSE cb_log
          /\ ch' = [c \in Callers |-> NotePut(ch[c], c, parsed)]
  /\ UNCHANGED <<wire_in, rx_pc, running, callbacks, config, peer_log, budget>>
  /\ UNCHANGED <<pc, op, arg, expired, result>>
  /\ UNCHANGED sys_vars

\* Lines 85-96: one pass of the inner while that cuts a frame out, decodes
\* it, puts it in the inbox and runs its callback.
RxExtract ==
  /\ rx_pc = "inner"
  /\ LoopCond(buffer)
  /\ ExtractStep(buffer).found
  /\ \E tx_ok \in LinkOutcomes :
       LET x == ExtractStep(buffer)
           parsed == ParseMessage(x.message)
           after == TriggerCallback(callbacks, CtlState, parsed, config, tx_ok)
       IN /\ buffer' = x.rest
          /\ rx_queue' = Append(rx_queue, parsed)
          /\ telemetry' = after.telemetry
          /\ faults' = after.faults
          /\ connected' = after.connected
          /\ wire_out' = after.wire_out
          /\ rxh' = IF rxh.on THEN [rxh EXCEPT !.log = Append(@, x.message),
                                               !.put = Append(@, parsed)]
                     ELSE rxh
          /\ cb_log' = IF rxh.on /\ parsed.type \in DOMAIN callbacks
                       THEN Append(cb_log, [raised |-> after.raised,
                                            msg |-> parsed,
                                            after |-> after,
                                            handler |-> callbacks[parsed.type],
                                            link_ok |->
                                              \/ tx_ok
                                              \/ parsed.type # FAULT,
                                            before |-> CtlState])
                       ELSE cb_log
          /\ ch' = [c \in Callers |-> NotePut(ch[c], c, parsed)]
  /\ UNCHANGED <<wire_in, rx_pc, running, callbacks, config, peer_log, budget>>
  /\ UNCHANGED <<pc, op, arg, expired, result>>
  /\ UNCHANGED sys_vars

\* An inner while that throws the buffer away when it ends.
RxLoopExit_ClearsBuffer ==
  /\ rx_pc = "inner"
  /\ ~(LoopCond(buffer) /\ ExtractStep(buffer).found)
  /\ rx_pc' = "outer"
  /\ buffer' = <<>>
  /\ UNCHANGED <<wire_in, wire_out, running, rx_queue, callbacks, rxh, cb_log,
                 peer_log, budget>>
  /\ UNCHANGED ctl_vars
  /\ UNCHANGED call_vars
  /\ UNCHANGED sys_vars

\* Lines 85 and 97-98: the inner while ends, by its condition or by break.
RxLoopExit ==
  /\ rx_pc = "inner"
  /\ ~(LoopCond(buffer) /\ ExtractStep(buffer).found)
  /\ rx_pc' = "outer"
  /\ UNCHANGED <<wire_in, wire_out, buffer, running, rx_queue, callbacks,
                 rxh, cb_log, peer_log, budget>>
  /\ UNCHANGED ctl_vars
  /\ UNCHANGED call_vars
  /\ UNCHANGED sys_vars

\* ---------------------------------------------------------------- callers

Waiting(c) == pc[c] \in {"loop", "get"}

\* What is recorded about a caller's current (or last) call: out0, the
\* number of frames written before it; stale, how many of the messages that
\* were in the inbox when it sent are still there; arrived / in_time / nacked,
\* see NotePut; others, another caller took a message off the inbox during
\* it; lost, another caller took its acknowledgement; took_stale, the
\* acknowledgement it took was in the inbox before it sent; wrote, it stored
\* its value or cleared the faults.
NoCall ==
  [arrived |-> FALSE, in_time |-> FALSE, nacked |-> FALSE, out0 |-> 0,
   stale |-> 0, others |-> FALSE, lost |-> FALSE, took_stale |-> FALSE,
   wrote |-> FALSE]

\* set_max_throttle / set_current_limit / reset_faults up to the start of
\* wait_for_ack: send the command; a failed send returns False at once.  A
\* caller calls when it is in no call ("done": its last call has returned).
StartCommand(c, o, a, tx_ok) ==
  /\ pc[c] \in {"idle", "done"}
  /\ budget.calls > 0
  /\ budget' = [budget EXCEPT !.calls = @ - 1]
  /\ LET v == CmdValue(o, a)
         out == SendMessage(wire_out, CmdKind(o), CmdParams(o, v), tx_ok)
     IN /\ wire_out' = out
        /\ op' = [op EXCEPT ![c] = o]
        /\ arg' = [arg EXCEPT ![c] = v]
        /\ expired' = [expired EXCEPT ![c] = FALSE]
        /\ result' = [result EXCEPT ![c] = FALSE]
        /\ pc' = [pc EXCEPT ![c] = IF tx_ok THEN "loop" ELSE "done"]
        /\ ch' = [d \in Callers |->
                    IF d = c
                    THEN [NoCall EXCEPT
                            !.out0 = Len(wire_out),
                            !.stale = IF tx_ok THEN Len(rx_queue) ELSE 0]
                    ELSE ch[d]]
  /\ UNCHANGED <<peer_log>>
  /\ UNCHANGED rx_vars
  /\ UNCHANGED ctl_vars
  /\ UNCHANGED sys_vars

\* A while condition that never looks at the clock.
LoopCheck_IgnoresClock(c) ==
  /\ pc[c] = "loop"
  /\ pc' = [pc EXCEPT ![c] = "get"]
  /\ result' = [result EXCEPT ![c] = FALSE]
  /\ UNCHANGED <<wire_out, op, arg, expired, ch, peer_log, budget>>
  /\ UNCHANGED rx_vars
  /\ UNCHANGED ctl_vars
  /\ UNCHANGED sys_vars

\* wait_for_ack's while condition: poll again, or return False.
LoopCheck(c) ==
  /\ pc[c] = "loop"
  /\ pc' = [pc EXCEPT ![c] = IF ~expired[c] THEN "get" ELSE "done"]
  /\ result' = [result EXCEPT ![c] = FALSE]
  /\ UNCHANGED <<wire_out, op, arg, expired, ch, peer_log, budget>>
  /\ UNCHANGED rx_vars
  /\ UNCHANGED ctl_vars
  /\ UNCHANGED sys_vars

\* What caller c's taking msg off the inbox means for caller d's call.
NoteGet(h, d, c, msg) ==
  IF d = c
  THEN [h EXCEPT !.stale = Max(0, @ - 1),
                 !.took_stale = IsAckFor(msg, CmdKind(op[c])) /\ h.stale > 0]
  ELSE IF Waiting(d)
       THEN [h EXCEPT !.stale = Max(0, @ - 1),
                      !.others = TRUE,
                      !.lost = @ \/ (/\ IsAckFor(msg, CmdKind(op[d]))
                                     /\ ~IsAckFor(msg, CmdKind(op[c])))]
       ELSE h

\* get_message returns the inbox's first message, and wait_for_ack tests it.
GetMessage(c) ==
  /\ pc[c] = "get"
  /\ rx_queue # <<>>
  /\ LET msg == Head(rx_queue)
     IN /\ rx_queue' = Tail(rx_queue)
        /\ pc' = [pc EXCEPT ![c] = IF AckMatches(msg, CmdKind(op[c]))
                                   THEN "acked" ELSE "loop"]
        /\ ch' = [d \in Callers |-> NoteGet(ch[d], d, c, msg)]
  /\ UNCHANGED <<wire_in, wire_out, buffer, rx_pc, running, callbacks, rxh,
                 cb_log, op, arg, expired, result, peer_log, budget>>
  /\ UNCHANGED ctl_vars
  /\ UNCHANGED sys_vars

\* A wait that writes the command again when its last poll comes back empty.
GetEmpty_Resend(c) ==
  /\ pc[c] = "get"
  /\ rx_queue = <<>>
  /\ expired[c]
  /\ pc' = [pc EXCEPT ![c] = "loop"]
  /\ wire_out' = SendMessage(wire_out, CmdKind(op[c]),
                             CmdParams(op[c], arg[c]), TRUE)
  /\ UNCHANGED <<op, arg, expired, result, ch, peer_log, budget>>
  /\ UNCHANGED rx_vars
  /\ UNCHANGED ctl_vars
  /\ UNCHANGED sys_vars

\* get_message's queue.Empty: None, back to the while.  (Before the
\* timeout has elapsed that leads to the same get again, which changes
\* nothing; only the poll that ends after it is a step.)
GetEmpty(c) ==
  /\ pc[c] = "get"
  /\ rx_queue = <<>>
  /\ expired[c]
  /\ pc' = [pc EXCEPT ![c] = "loop"]
  /\ UNCHANGED <<wire_out, op, arg, expired, result, ch, peer_log, budget>>
  /\ UNCHANGED rx_vars
  /\ UNCHANGED ctl_vars
  /\ UNCHANGED sys_vars

\* wait_for_ack returned True: the method stores the value (or clears the
\* faults) and returns True; set_speed and set_torque just return True.
Commit(c) ==
  /\ pc[c] = "acked"
  /\ config' = CASE op[c] = "set_max_throttle" ->
                      [config EXCEPT !.max_throttle = arg[c]]
                 [] op[c] = "set_current_limit" ->
                      [config EXCEPT !.current_limit = arg[c]]
                 [] OTHER -> config
  /\ faults' = IF op[c] = "reset_faults" THEN <<>> ELSE faults
  /\ result' = [result EXCEPT ![c] = TRUE]
  /\ pc' = [pc EXCEPT ![c] = "done"]
  /\ ch' = [ch EXCEPT ![c].wrote = op[c] \in MainOps]
  /\ UNCHANGED <<wire_out, telemetry, connected, op, arg, expired, peer_log,
                 budget>>
  /\ UNCHANGED rx_vars
  /\ UNCHANGED sys_vars

\* The timeout of c's wait elapses.  Time passes only while every thread is
\* blocked or asleep: the receive loop has nothing to read, and every caller
\* that is in a call is inside rx_queue.get on an empty inbox.
TimeoutElapses(c) ==
  /\ pc[c] = "get"
  /\ ~expired[c]
  /\ rx_pc = "outer"
  /\ wire_in = <<>>
  /\ rx_queue = <<>>
  /\ \A d \in Callers : pc[d] \in {"idle", "done", "get"}
  /\ expired' = [expired EXCEPT ![c] = TRUE]
  /\ UNCHANGED <<wire_out, pc, op, arg, result, ch, peer_log, budget>>
  /\ UNCHANGED rx_vars
  /\ UNCHANGED ctl_vars
  /\ UNCHANGED sys_vars

\* ------------------------------------------------------------------- peer
\* The peer writes a frame when the controller has read the one before it.

\* A name the peer uses (stm32_simulator.py).
MISSING_PARAM == <<"M", "I", "S", "S", "I", "N", "G", "_", "P", "A", "R", "A", "M">>

\* The command kind of the oldest frame the peer has not handled yet.
PeerCommand == ParseMessage(wire_out[Len(peer_log) + 1]).type

\* _send_ack's frame, <ACK:ACK=command>, and the form with the command as a
\* bare key, <ACK:command>, which wait_for_ack takes as well.
AckFrame(command, bare) ==
  IF bare THEN <<START_CHAR>> \o ACK \o <<SEPARATOR>> \o command \o <<END_CHAR>>
  ELSE BuildMessage(ACK, <<<<ACK, StrVal(command)>>>>)

\* _send_nack's frame, <NACK:CMD=command;REASON=MISSING_PARAM>.
NackFrame(command) ==
  BuildMessage(NACK, <<<<CMD, StrVal(command)>>,
                       <<REASON, StrVal(MISSING_PARAM)>>>>)

\* The telemetry frame the peer sends on its own: <DATA:TEMP=85.0;SOC=50>.
UnsolicitedFrames ==
  {BuildMessage(DATA, <<<<TEMP, FloatVal(850, 1)>>, <<SOC, IntVal(50)>>>>)}

\* The peer acknowledges the oldest command it has not handled.
PeerAck ==
  /\ Len(peer_log) < Len(wire_out)
  /\ wire_in = <<>>
  /\ \E bare \in BOOLEAN : wire_in' = wire_in \o AckFrame(PeerCommand, bare)
  /\ peer_log' = Append(peer_log, "ACK")
  /\ UNCHANGED <<wire_out, buffer, rx_pc, running, rx_queue, callbacks, rxh,
                 cb_log, budget>>
  /\ UNCHANGED ctl_vars
  /\ UNCHANGED call_vars
  /\ UNCHANGED sys_vars

\* The peer rejects it.
PeerNack ==
  /\ Len(peer_log) < Len(wire_out)
  /\ wire_in = <<>>
  /\ wire_in' = wire_in \o NackFrame(PeerCommand)
  /\ peer_log' = Append(peer_log, "NACK")
  /\ UNCHANGED <<wire_out, buffer, rx_pc, running, rx_queue, callbacks, rxh,
                 cb_log, budget>>
  /\ UNCHANGED ctl_vars
  /\ UNCHANGED call_vars
  /\ UNCHANGED sys_vars

\* The peer does not answer it (the frame or the answer is lost).
PeerSilent ==
  /\ Len(peer_log) < Len(wire_out)
  /\ peer_log' = Append(peer_log, "NONE")
  /\ UNCHANGED <<wire_in, wire_out, buffer, rx_pc, running, rx_queue,
                 callbacks, rxh, cb_log, budget>>
  /\ UNCHANGED ctl_vars
  /\ UNCHANGED call_vars
  /\ UNCHANGED sys_vars

\* The peer sends telemetry or a fault of its own accord.
PeerUnsolicited ==
  /\ budget.frames > 0
  /\ wire_in = <<>>
  /\ budget' = [budget EXCEPT !.frames = @ - 1]
  /\ \E f \in UnsolicitedFrames : wire_in' = wire_in \o f
  /\ UNCHANGED <<wire_out, buffer, rx_pc, running, rx_queue, callbacks, rxh,
                 cb_log, peer_log>>
  /\ UNCHANGED ctl_vars
  /\ UNCHANGED call_vars
  /\ UNCHANGED sys_vars

\* ------------------------------------------------------------ specifications

\* Bounds of the model.
MaxCalls == 2

MaxUnsolicited == 1

\* The values the operator passes to each command.
ArgsOf(o) ==
  CASE o = "set_max_throttle" -> {IntVal(150)}
    [] o = "set_current_limit" -> {FloatVal(40, 0)}
    [] o = "set_speed" -> {IntVal(30)}
    [] o = "set_torque" -> {IntVal(50)}
    [] OTHER -> {IntVal(0)}

\* The state once EVController.__init__ has run, with `stream` the bytes the
\* peer has already written.
InitWith(stream, cbs, estop, calls, frames, history) ==
  /\ wire_in = stream
  /\ wire_out = <<>>
  /\ buffer = <<>>
  /\ rx_pc = "outer"
  /\ running = TRUE
  /\ rx_queue = <<>>
  /\ callbacks = cbs
  /\ telemetry = EmptyDict
  /\ faults = <<>>
  /\ connected = FALSE
  /\ config = DefaultConfig(estop)
  /\ pc = [c \in Callers |-> "idle"]
  /\ op = [c \in Callers |-> "reset_faults"]
  /\ arg = [c \in Callers |-> IntVal(0)]
  /\ expired = [c \in Callers |-> FALSE]
  /\ result = [c \in Callers |-> FALSE]
  /\ peer_log = <<>>
  /\ budget = [frames |-> frames, calls |-> calls]
  /\ rxh = [bytes |-> <<>>, data |-> <<>>, on |-> history, text |-> <<>>,
            buf0 |-> <<>>, n0 |-> 0, log |-> <<>>, put |-> <<>>]
  /\ cb_log = <<>>
  /\ ch = [c \in Callers |-> NoCall]
  /\ serial_open = TRUE
  /\ sd_pc = "none"
  /\ sd_log = <<>>
  /\ rx_errors = <<>>
  /\ reg_log = <<>>
  /\ sim = [speed |-> 0, torque |-> 0, rpm |-> 0, current |-> 0,
            stopped |-> FALSE, steps |-> 0,
            last |-> [rpm |-> 0, stopped |-> FALSE]]
  /\ tx = [bytes |-> <<>>, left |-> [t \in Writers |-> <<>>],
           sent |-> <<>>, parts |-> FALSE]

\* No payload is being echoed.
NoProbe == [params |-> <<>>, kind |-> <<>>]

Init ==
  /\ InitWith(<<>>, InitCallbacks, TRUE, MaxCalls, MaxUnsolicited, FALSE)
  /\ probe = NoProbe

\* serial.read(serial.in_waiting): everything that has arrived.
RxReadAll == RxRead(Len(wire_in))

\* The steps of the receive thread, of a caller inside a call, of the clock
\* and of the peer.
Protocol ==
  \/ RxReadAll
  \/ RxExtract
  \/ RxLoopExit
  \/ \E c \in Callers : LoopCheck(c)
  \/ \E c \in Callers : GetMessage(c)
  \/ \E c \in Callers : GetEmpty(c)
  \/ \E c \in Callers : Commit(c)
  \/ \E c \in Callers : TimeoutElapses(c)
  \/ PeerAck
  \/ PeerNack
  \/ PeerSilent
  \/ PeerUnsolicited

\* The main application with its two calling activities.
Next ==
  \/ Protocol
  \/ \E c \in Callers, tx_ok \in BOOLEAN :
       \E o \in OpsOf(c) : \E a \in ArgsOf(o) : StartCommand(c, o, a, tx_ok)

Spec == Init /\ [][Next]_vars

\* ---- One caller, with the main application's controller or the standalone
\* script's.

\* The confirmed commands of the controller that is running.
ProgramOps == IF callbacks = StandaloneCallbacks THEN StandaloneOps ELSE MainOps

InitSend ==
  /\ \E cbs \in {InitCallbacks, StandaloneCallbacks} :
       InitWith(<<>>, cbs, TRUE, MaxCalls, MaxUnsolicited, FALSE)
  /\ probe = NoProbe

NextSend ==
  \/ Protocol
  \/ \E tx_ok \in BOOLEAN :
       \E o \in ProgramOps : \E a \in ArgsOf(o) : StartCommand("ui", o, a, tx_ok)

SpecSend == InitSend /\ [][NextSend]_vars

\* ---- The receive loop alone, on a stream of bytes that arrives in chunks.

\* The longest stream, in pieces.
MaxPieces == 3

\* A frame of telemetry, <DATA:SOC=9>.
DataFrame == BuildMessage(DATA, <<<<SOC, IntVal(9)>>>>)

\* What streams are made of: the delimiters, a letter, a character of two
\* bytes, and a whole frame.
Pieces ==
  {<<START_CHAR>>, <<END_CHAR>>, <<"A">>, <<LeadByte, ContByte>>, DataFrame}

RECURSIVE StreamsOf(_)
StreamsOf(k) ==
  IF k = 0 THEN {<<>>}
  ELSE LET shorter == StreamsOf(k - 1)
       IN shorter \cup {t \o p : t \in shorter, p \in Pieces}

InitCodec ==
  /\ \E stream \in StreamsOf(MaxPieces) :
       InitWith(stream, InitCallbacks, TRUE, 0, 0, TRUE)
  /\ probe = NoProbe

\* serial.read(serial.in_waiting) when only the first n bytes have arrived.
NextCodec ==
  \/ \E n \in 1..Len(wire_in) : RxRead(n)
  \/ RxExtract
  \/ RxLoopExit

SpecCodec == InitCodec /\ [][NextCodec]_vars

\* ---- The codec alone: one frame, built from a kind and a payload, is
\* written to a link that echoes it, and the receive loop decodes it.

\* The most parameters in a payload.
MaxParams == 2

ProbeKinds == {DATA, SET_CURRENT_LIMIT}

ProbeKeys == {LIMIT, TEMP, SOC}

\* An int, a negative int, two floats, a word, a numeral held as text, a
\* bool, and a text with the parameter separator in it.
ProbeValues ==
  {IntVal(5), IntVal(0 - 3), FloatVal(405, 1), FloatVal(40, 0),
   StrVal(<<"O", "K">>), StrVal(<<"5">>), TrueVal, StrVal(<<"A", ";", "B">>)}

\* The payloads (dicts in insertion order) of at most k parameters.
RECURSIVE PayloadsOf(_)
PayloadsOf(k) ==
  IF k = 0 THEN {<<>>}
  ELSE LET shorter == PayloadsOf(k - 1)
           fresh == {t \in shorter \X ProbeKeys \X ProbeValues :
                       \A i \in 1..Len(t[1]) : t[1][i][1] # t[2]}
       IN shorter \cup {Append(t[1], <<t[2], t[3]>>) : t \in fresh}

\* The dict a sequence of pairs stands for.
RECURSIVE PayloadDict(_)
PayloadDict(params) ==
  IF params = <<>> THEN EmptyDict
  ELSE LET last == params[Len(params)]
       IN DictSet(PayloadDict(SubSeq(params, 1, Len(params) - 1)),
                  last[1], last[2])

InitRoundTrip ==
  /\ InitWith(<<>>, InitCallbacks, TRUE, 0, 0, TRUE)
  /\ \E kind \in ProbeKinds, params \in PayloadsOf(MaxParams) :
       probe = [params |-> params, kind |-> kind]

\* send_message(kind, params) on a link that echoes: the frame written comes
\* back as bytes to read.
EchoSend ==
  /\ wire_out = <<>>
  /\ wire_out' = SendMessage(wire_out, probe.kind, probe.params, TRUE)
  /\ wire_in' = wire_in \o BuildMessage(probe.kind, probe.params)
  /\ UNCHANGED <<buffer, rx_pc, running, rx_queue, callbacks, rxh, cb_log,
                 peer_log, budget>>
  /\ UNCHANGED ctl_vars
  /\ UNCHANGED call_vars
  /\ UNCHANGED sys_vars

NextRoundTrip ==
  \/ EchoSend
  \/ RxReadAll
  \/ RxExtract
  \/ RxLoopExit

SpecRoundTrip == InitRoundTrip /\ [][NextRoundTrip]_vars

\* ---- The safety monitor: the peer sends telemetry, faults and frames of
\* kinds of its own, while a caller tries to reset the faults.

\* The most frames the peer sends on its own, and the most resets.
MaxFrames == 2

MaxResets == 1

OVERCURRENT == <<"O", "V", "E", "R", "C", "U", "R", "R", "E", "N", "T">>

PING == <<"P", "I", "N", "G">>

\* <DATA:TEMP=85.0;SOC=50>: too hot.
HotFrame ==
  BuildMessage(DATA, <<<<TEMP, FloatVal(850, 1)>>, <<SOC, IntVal(50)>>>>)

\* <DATA:TEMP=70;SOC=9>: temperature in the normal range, battery low.
LowFrame == BuildMessage(DATA, <<<<TEMP, IntVal(70)>>, <<SOC, IntVal(9)>>>>)

\* <DATA:TEMP=;SOC=9>: a temperature that is no number, battery low.
BadFrame == BuildMessage(DATA, <<<<TEMP, StrVal(<<>>)>>, <<SOC, IntVal(9)>>>>)

\* <FAULT:FAULT=OVERCURRENT>
FaultFrame == BuildMessage(FAULT, <<<<FAULT, StrVal(OVERCURRENT)>>>>)

\* <PING>: a kind nothing is registered for.
PingFrame == BuildMessage(PING, <<>>)

\* What the peer writes at a time: one frame, or two that arrive together.
MonitorFrames ==
  {HotFrame, LowFrame, BadFrame, FaultFrame, PingFrame, BadFrame \o HotFrame}

\* The peer writes when the controller has read what it wrote before.
PeerFrame ==
  /\ budget.frames > 0
  /\ wire_in = <<>>
  /\ budget' = [budget EXCEPT !.frames = @ - 1]
  /\ \E f \in MonitorFrames : wire_in' = wire_in \o f
  /\ UNCHANGED <<wire_out, buffer, rx_pc, running, rx_queue, callbacks, rxh,
                 cb_log, peer_log>>
  /\ UNCHANGED ctl_vars
  /\ UNCHANGED call_vars
  /\ UNCHANGED sys_vars

InitMonitor ==
  /\ InitWith(<<>>, InitCallbacks, TRUE, MaxResets, MaxFrames, TRUE)
  /\ probe = NoProbe

NextMonitor ==
  \/ RxReadAll
  \/ RxExtract
  \/ RxLoopExit
  \/ PeerFrame
  \/ \E tx_ok \in BOOLEAN : StartCommand("aux", "reset_faults", IntVal(0), tx_ok)
  \/ LoopCheck("aux")
  \/ GetMessage("aux")
  \/ GetEmpty("aux")
  \/ Commit("aux")
  \/ TimeoutElapses("aux")
  \/ PeerAck

SpecMonitor == InitMonitor /\ [][NextMonitor]_vars

\* ---- The receive thread from start to stop: frames arrive in reads of any
\* size, the transport may fail, and the application shuts down.

\* The transport errors of one run.
MaxErrors == 2

\* A receive loop that a transport error ends.
RxError_EndsLoop ==
  /\ running
  /\ rx_pc = "outer"
  /\ Len(rx_errors) < MaxErrors
  /\ rx_errors' = Append(rx_errors, buffer)
  /\ rx_pc' = "stopped"
  /\ UNCHANGED <<wire_in, wire_out, buffer, running, rx_queue, callbacks,
                 rxh, cb_log, peer_log, budget>>
  /\ UNCHANGED ctl_vars
  /\ UNCHANGED call_vars
  /\ UNCHANGED <<serial_open, sd_pc, sd_log, reg_log, sim, probe, tx>>

\* Lines 79-82 and 101-103: serial.in_waiting or serial.read raises; the
\* except prints, sleeps and the outer while goes round again.
RxError ==
  /\ running
  /\ rx_pc = "outer"
  /\ Len(rx_errors) < MaxErrors
  /\ rx_errors' = Append(rx_errors, buffer)
  /\ UNCHANGED <<wire_in, wire_out, buffer, rx_pc, running, rx_queue,
                 callbacks, rxh, cb_log, peer_log, budget>>
  /\ UNCHANGED ctl_vars
  /\ UNCHANGED call_vars
  /\ UNCHANGED <<serial_open, sd_pc, sd_log, reg_log, sim, probe, tx>>

\* Line 79: the outer while finds running false and _receive_loop returns.
RxReturn ==
  /\ ~running
  /\ rx_pc = "outer"
  /\ rx_pc' = "stopped"
  /\ UNCHANGED <<wire_in, wire_out, buffer, running, rx_queue, callbacks,
                 rxh, cb_log, peer_log, budget>>
  /\ UNCHANGED ctl_vars
  /\ UNCHANGED call_vars
  /\ UNCHANGED sys_vars

\* A shutdown that leaves out the emergency stop when the transport has
\* failed before.
ShutdownEstop_SkipsOnError ==
  /\ sd_pc = "none"
  /\ \E tx_ok \in LinkOutcomes :
       wire_out' = IF rx_errors = <<>> THEN EmergencyStop(wire_out, tx_ok)
                   ELSE wire_out
  /\ sd_log' = IF rx_errors = <<>> THEN Append(sd_log, "estop") ELSE sd_log
  /\ sd_pc' = "estop"
  /\ UNCHANGED <<wire_in, buffer, rx_pc, running, rx_queue, callbacks, rxh,
                 cb_log, peer_log, budget>>
  /\ UNCHANGED ctl_vars
  /\ UNCHANGED call_vars
  /\ UNCHANGED <<serial_open, rx_errors, reg_log, sim, probe, tx>>

\* shutdown, lines 419-424: emergency_stop() and the pause after it.
ShutdownEstop ==
  /\ sd_pc = "none"
  /\ \E tx_ok \in LinkOutcomes : wire_out' = EmergencyStop(wire_out, tx_ok)
  /\ sd_log' = Append(sd_log, "estop")
  /\ sd_pc' = "estop"
  /\ UNCHANGED <<wire_in, buffer, rx_pc, running, rx_queue, callbacks, rxh,
                 cb_log, peer_log, budget>>
  /\ UNCHANGED ctl_vars
  /\ UNCHANGED call_vars
  /\ UNCHANGED <<serial_open, rx_errors, reg_log, sim, probe, tx>>

\* shutdown, lines 425-427, up to the join inside protocol.stop (71-73):
\* stop_logging, save_config (which catches its own errors), then running is
\* cleared.  Closing the log file may raise, and then shutdown ends there.
ShutdownStop ==
  /\ sd_pc = "estop"
  /\ \E log_ok \in BOOLEAN :
       /\ sd_pc' = IF log_ok THEN "stop" ELSE "failed"
       /\ running' = (running /\ ~log_ok)
  /\ UNCHANGED <<wire_in, wire_out, buffer, rx_pc, rx_queue, callbacks, rxh,
                 cb_log, peer_log, budget>>
  /\ UNCHANGED ctl_vars
  /\ UNCHANGED call_vars
  /\ UNCHANGED <<serial_open, sd_log, rx_errors, reg_log, sim, probe, tx>>

\* protocol.stop, lines 73-75: the join returns, because the receive thread
\* has ended or because a second has passed, and the port is closed.
StopClose ==
  /\ sd_pc = "stop"
  /\ serial_open' = FALSE
  /\ sd_log' = Append(sd_log, "close")
  /\ sd_pc' = "closed"
  /\ UNCHANGED <<wire_in, wire_out, buffer, rx_pc, running, rx_queue,
                 callbacks, rxh, cb_log, peer_log, budget>>
  /\ UNCHANGED ctl_vars
  /\ UNCHANGED call_vars
  /\ UNCHANGED <<rx_errors, reg_log, sim, probe, tx>>

\* serial.in_waiting when only the start of a chunk has arrived.
ShortRead == 5

\* The chunks the peer writes in one run.
MaxChunks == 1

InitLifecycle ==
  /\ InitWith(<<>>, InitCallbacks, TRUE, 0, MaxChunks, TRUE)
  /\ probe = NoProbe

NextLifecycle ==
  \/ \E n \in {Min(ShortRead, Len(wire_in)), Len(wire_in)} : RxRead(n)
  \/ RxExtract
  \/ RxLoopExit
  \/ RxError
  \/ RxReturn
  \/ PeerFrame
  \/ ShutdownEstop
  \/ ShutdownStop
  \/ StopClose

SpecLifecycle == InitLifecycle /\ [][NextLifecycle]_vars

\* ------------------------------------------------- send-and-confirm claims

Returned(c) == pc[c] = "done"

C2_NoStaleAck ==
  \A c \in Callers :
    (Returned(c) /\ result[c]) => (ch[c].arrived /\ ~ch[c].took_stale)

\* C3: while two callers wait for acknowledgements of different kinds, no
\* caller takes the other's acknowledgement off the inbox, and a caller whose
\* acknowledgement arrived before its timeout returns true.
C3_NoAckLost ==
  \A c \in Callers :
    /\ ~ch[c].lost
    /\ (Returned(c) /\ ch[c].in_time) => result[c]

\* C4: a call during which no acknowledgement of its command arrived (or
\* whose send failed) returns false and has stored nothing: the configured
\* value and the fault list are as they were.
C4_NoAckNoChange ==
  \A c \in Callers :
    (Returned(c) /\ ~ch[c].arrived) => (~result[c] /\ ~ch[c].wrote)

\* A call that took no acknowledgement left from before its send, and during
\* which none arrived, returns false and stores nothing.
NoAckTakenNoChange ==
  \A c \in Callers :
    (Returned(c) /\ ~ch[c].arrived /\ ~ch[c].took_stale) =>
      (~result[c] /\ ~ch[c].wrote)

\* C5: a call whose command the peer answered with a NACK, which reached the
\* inbox during the call, returns false.
C5_NackReturnsFalse ==
  \A c \in Callers :
    (Returned(c) /\ ch[c].nacked) => ~result[c]

\* The frames of caller c's command kind written since its call began.
FramesOfCall(c) ==
  {i \in (ch[c].out0 + 1)..Len(wire_out) :
     ParseMessage(wire_out[i]).type = CmdKind(op[c])}

\* C6: a call of set_max_throttle, set_current_limit, reset_faults, set_speed
\* or set_torque writes its command frame at most once, whether it is
\* acknowledged, rejected or times out.
C6_AtMostOneFrame ==
  \A c \in Callers :
    pc[c] # "idle" => Cardinality(FramesOfCall(c)) <= 1

\* The scenario of C6: a set_torque that timed out, with its one frame.
C6_Witness ==
  \E c \in Callers :
    /\ Returned(c)
    /\ op[c] = "set_torque"
    /\ expired[c]
    /\ ~result[c]
    /\ Cardinality(FramesOfCall(c)) = 1

\* ------------------------------------------------------ frame codec claims

\* The receive loop has finished with the last chunk it read.
Settled == rx_pc = "outer"

\* C7: the frames emitted while a byte sequence was read in chunks (each
\* chunk decoded and appended, then the loop run) are the frames emitted when
\* the same bytes are read as one chunk, in the same order.
C7_ChunkingInvariant ==
  Settled => rxh.log = ExtractAll(Decode(rxh.bytes)).frames

\* On the text that reached the buffer, chunk by chunk, the loop has emitted
\* what it emits on that text whole, and kept what it keeps.
TextChunkingInvariant ==
  Settled => /\ rxh.log = ExtractAll(rxh.text).frames
             /\ buffer = ExtractAll(rxh.text).rest

\* b holds an opening delimiter with no closing delimiter after it.
Partial(b) ==
  /\ Contains(b, START_CHAR)
  /\ Find(b, END_CHAR, Find(b, START_CHAR, 1)) = 0

\* C8: when the buffer, after a read, holds an opening delimiter with no
\* closing delimiter after it, the loop emits nothing and keeps the buffer
\* as it is; and when a read brings the closing delimiter to a buffer that
\* was so, the first frame emitted is the kept text from its opening
\* delimiter on, followed by the new text up to its closing delimiter.
C8_PartialFrameKept ==
  Settled =>
    /\ Partial(rxh.buf0 \o rxh.data) =>
         /\ Len(rxh.log) = rxh.n0
         /\ buffer = rxh.buf0 \o rxh.data
    /\ (Partial(rxh.buf0) /\ Contains(rxh.data, END_CHAR)) =>
         /\ Len(rxh.log) > rxh.n0
         /\ rxh.log[rxh.n0 + 1] =
              SubSeq(rxh.buf0, Find(rxh.buf0, START_CHAR, 1), Len(rxh.buf0))
                \o SubSeq(rxh.data, 1, Find(rxh.data, END_CHAR, 1))

\* The scenario of C8: the first part of <DATA:SOC=9> was kept, the read
\* that followed brought the rest, and the frame came out whole.
C8_Witness ==
  /\ Settled
  /\ Partial(rxh.buf0)
  /\ rxh.buf0 \o rxh.data = DataFrame
  /\ rxh.n0 = 0
  /\ rxh.log = <<DataFrame>>
  /\ buffer = <<>>

NoDelimiter(t, a, b) ==
  \A m \in a..b : t[m] \notin {START_CHAR, END_CHAR}

\* In t, a truncated frame opens at i (an opening delimiter and some text,
\* no closing delimiter) and a well-formed frame runs from j to k.
TruncatedThenFrame(t, i, j, k) ==
  /\ t[i] = START_CHAR
  /\ j > i + 1
  /\ NoDelimiter(t, i + 1, j - 1)
  /\ t[j] = START_CHAR
  /\ k > j
  /\ NoDelimiter(t, j + 1, k - 1)
  /\ t[k] = END_CHAR

\* Frame f was emitted as it is, is in the inbox with its own kind and
\* payload, and went to the subscriber of its kind (if there is one).
Delivered(f) ==
  /\ \E n \in 1..Len(rxh.log) : rxh.log[n] = f
  /\ \E n \in 1..Len(rx_queue) : rx_queue[n] = ParseMessage(f)
  /\ ParseMessage(f).type \in DOMAIN callbacks =>
       \E n \in 1..Len(cb_log) : cb_log[n].msg = ParseMessage(f)

\* C9: when the text received holds a truncated frame and then a well-formed
\* frame, the well-formed frame is emitted intact, decoded with its own kind
\* and payload, put in the inbox and handed to its subscriber.
C9_TruncatedFrameDiscarded ==
  Settled =>
    \A i \in 1..Len(rxh.text), j \in 1..Len(rxh.text), k \in 1..Len(rxh.text) :
      TruncatedThenFrame(rxh.text, i, j, k) =>
        Delivered(SubSeq(rxh.text, j, k))

\* C10: every frame emitted has exactly one opening delimiter, which is its
\* first character, and exactly one closing delimiter, which is its last.
C10_FrameDelimiters ==
  \A n \in 1..Len(rxh.log) :
    LET f == rxh.log[n]
    IN /\ Count(f, START_CHAR) = 1
       /\ Count(f, END_CHAR) = 1
       /\ f[1] = START_CHAR
       /\ f[Len(f)] = END_CHAR

\* -------------------------------------------------------- round-trip claim

\* C11: the message decoded from the frame built from a kind and a payload
\* has that kind and a payload with the same keys and, for each key, the
\* original value with its type (an int comes back as that int).
C11_RoundTrip ==
  rx_queue # <<>> =>
    /\ rx_queue[1].type = probe.kind
    /\ rx_queue[1].data = PayloadDict(probe.params)

\* The spec's example of the round trip does hold: {LIMIT: 5} comes back
\* with the integer 5.
RoundTripOfInt ==
  (rx_queue # <<>> /\ probe.params = <<<<LIMIT, IntVal(5)>>>>) =>
    /\ rx_queue[1].type = probe.kind
    /\ rx_queue[1].data = [k \in {LIMIT} |-> IntVal(5)]

\* --------------------------------------------------- safety monitor claims

\* The frames callback entry e wrote to the link.
WrittenBy(e) ==
  SubSeq(e.after.wire_out, Len(e.before.wire_out) + 1, Len(e.after.wire_out))

HasEstop(frames) ==
  \E i \in 1..Len(frames) : ParseMessage(frames[i]).type = EMERGENCY_STOP

\* C12: with emergency_stop_on_fault enabled, every run of the FAULT
\* subscriber, whatever the fault list held before it, has written an ESTOP
\* frame by the time it returns (while the link takes writes).
C12_EstopOnEveryFault ==
  \A n \in 1..Len(cb_log) :
    (/\ cb_log[n].handler = "_handle_fault"
     /\ config.emergency_stop_on_fault
     /\ cb_log[n].link_ok) => HasEstop(WrittenBy(cb_log[n]))

\* The scenario of the specification does hold: a FAULT whose name is new
\* has its ESTOP frame written inside the callback.
EstopOnNewFault ==
  \A n \in 1..Len(cb_log) :
    (/\ cb_log[n].handler = "_handle_fault"
     /\ config.emergency_stop_on_fault
     /\ cb_log[n].link_ok
     /\ ~InList(cb_log[n].before.faults,
                DictGet(cb_log[n].msg.data, FAULT, StrVal(UNKNOWN))))
      => HasEstop(WrittenBy(cb_log[n]))

\* The merged TEMP is above the overheat threshold / the merged SOC is below
\* the low-battery threshold (a key that is absent counts as 0 / as 100).
TempAbove(tel) ==
  LET temp == DictGet(tel, TEMP, IntVal(0))
  IN IsNumber(temp) /\ NumGT(temp, config.overheat_threshold)

SocBelow(tel) ==
  LET soc == DictGet(tel, SOC, IntVal(100))
  IN IsNumber(soc) /\ NumGT(config.low_battery_threshold, soc)

\* C13: after every run of the telemetry subscriber, OVERHEAT is in the
\* fault list if the merged TEMP is above its threshold, LOW_BATTERY is in it
\* if the merged SOC is below its threshold, and neither was added by the
\* run if its threshold is not crossed.
C13_ThresholdsEvaluated ==
  \A n \in 1..Len(cb_log) :
    LET e == cb_log[n]
    IN e.handler = "_handle_telemetry" =>
         /\ TempAbove(e.after.telemetry) =>
              InList(e.after.faults, StrVal(OVERHEAT))
         /\ SocBelow(e.after.telemetry) =>
              InList(e.after.faults, StrVal(LOW_BATTERY))
         /\ (~TempAbove(e.after.telemetry)
               /\ ~InList(e.before.faults, StrVal(OVERHEAT)))
              => ~InList(e.after.faults, StrVal(OVERHEAT))
         /\ (~SocBelow(e.after.telemetry)
               /\ ~InList(e.before.faults, StrVal(LOW_BATTERY)))
              => ~InList(e.after.faults, StrVal(LOW_BATTERY))

\* The same for the runs in which both merged values are numbers.
ThresholdsOfNumbers ==
  \A n \in 1..Len(cb_log) :
    LET e == cb_log[n]
    IN (e.handler = "_handle_telemetry" /\ ~e.raised) =>
         /\ TempAbove(e.after.telemetry) =>
              InList(e.after.faults, StrVal(OVERHEAT))
         /\ SocBelow(e.after.telemetry) =>
              InList(e.after.faults, StrVal(LOW_BATTERY))

\* C14: the fault list holds no fault name twice.
C14_NoDuplicateFaults ==
  \A i \in 1..Len(faults), j \in 1..Len(faults) :
    i # j => ~ValEq(faults[i], faults[j])

\* The scenario of C14: the same fault was reported twice and is in the list
\* once.
C14_Witness ==
  /\ Len(cb_log) = 2
  /\ cb_log[1].handler = "_handle_fault"
  /\ cb_log[2].handler = "_handle_fault"
  /\ cb_log[1].msg = cb_log[2].msg
  /\ faults = <<StrVal(OVERCURRENT)>>

\* The step is reset_faults returning after an acknowledgement of RESET_FAULT
\* was put in the inbox and wait_for_ack found it.
ResetAcknowledged ==
  \E c \in Callers :
    /\ pc[c] = "acked"
    /\ op[c] = "reset_faults"
    /\ ch[c].arrived \/ ch[c].took_stale
    /\ pc'[c] = "done"
    /\ result'[c]

\* C15: no step takes a fault name off the fault list, except the return of
\* a reset_faults that received its acknowledgement.
C15_FaultsStayUntilReset ==
  [][(\A i \in 1..Len(faults) : InList(faults', faults[i]))
       \/ ResetAcknowledged]_vars

\* The scenario of C15: OVERHEAT was raised, telemetry then brought the
\* temperature back to 70, a reset failed, and OVERHEAT is still there.
C15_Witness ==
  /\ InList(faults, StrVal(OVERHEAT))
  /\ TEMP \in DOMAIN telemetry
  /\ telemetry[TEMP] = IntVal(70)
  /\ pc["aux"] = "done"
  /\ op["aux"] = "reset_faults"
  /\ ~result["aux"]
  /\ budget.calls = 0

\* ------------------------------------------------------- dispatch claims

Subscribed(m) == m.type \in DOMAIN callbacks

\* The messages the subscribers were called with, in order.
Dispatched == [n \in 1..Len(cb_log) |-> cb_log[n].msg]

\* Every frame of the text received so far has been decoded and put in the
\* inbox, and those of a subscribed kind have been dispatched, in order.
AllProcessed ==
  /\ rxh.log = ExtractAll(rxh.text).frames
  /\ rxh.put = [i \in 1..Len(rxh.log) |-> ParseMessage(rxh.log[i])]
  /\ Dispatched = SelectSeq(rxh.put, Subscribed)

SomeRaised == \E n \in 1..Len(cb_log) : cb_log[n].raised

\* C18: after a subscriber raised, the receive loop still decodes, puts in
\* the inbox and dispatches every frame: whenever it has finished with a
\* chunk, all frames received so far, those after the one whose subscriber
\* raised included, have gone through.
C18_RaisingCallbackIsolated ==
  (Settled /\ SomeRaised) => AllProcessed

\* The scenario of C18: the subscriber raised on the first frame of a chunk
\* of two, the second frame of the chunk raised OVERHEAT, and a frame that
\* came later was dispatched too.
C18_Witness ==
  /\ Settled
  /\ Len(cb_log) = 3
  /\ cb_log[1].raised
  /\ cb_log[2].msg = ParseMessage(HotFrame)
  /\ ~InList(cb_log[2].before.faults, StrVal(OVERHEAT))
  /\ InList(cb_log[2].after.faults, StrVal(OVERHEAT))
  /\ Len(rxh.put) = 3

\* The step is a pass of the inner while on a frame whose kind has no
\* subscriber.
UnsubscribedPass ==
  /\ rx_pc = "inner"
  /\ buffer' # buffer
  /\ ExtractStep(buffer).found
  /\ ParseMessage(ExtractStep(buffer).message).type \notin DOMAIN callbacks

\* C20: a frame whose kind has no subscriber is put in the inbox, no
\* subscriber is called for it, the controller's state and the link are left
\* as they were and the loop goes on; and the frames around it are all
\* decoded, put in the inbox and dispatched.
C20_UnsubscribedKindQueued ==
  /\ [](Settled => AllProcessed)
  /\ [][UnsubscribedPass =>
         /\ rx_queue' = Append(rx_queue,
                               ParseMessage(ExtractStep(buffer).message))
         /\ cb_log' = cb_log
         /\ rx_pc' = "inner"
         /\ UNCHANGED <<telemetry, faults, connected, wire_out>>]_vars

\* The scenario of C20: <PING> came first and is in the inbox with no
\* subscriber called; the DATA frame after it was dispatched.
C20_Witness ==
  /\ Settled
  /\ Len(rxh.put) = 2
  /\ rxh.put[1] = ParseMessage(PingFrame)
  /\ rx_queue = rxh.put
  /\ Dispatched = <<ParseMessage(HotFrame)>>
  /\ faults = <<StrVal(OVERHEAT)>>

\* ---- One wait_for_ack, with telemetry that never stops arriving and a clock
\* that runs whatever the threads do.

\* The calls of one run.
MaxWaits == 1

\* The peer holds its telemetry back while the inbox holds this many messages
\* (the flow goes on for ever, at the pace at which the inbox is emptied).
FlowCap == 2

\* time.time() - start_time reaches the timeout of c's wait, whatever the
\* threads are doing.
ClockExpires(c) ==
  /\ Waiting(c)
  /\ ~expired[c]
  /\ expired' = [expired EXCEPT ![c] = TRUE]
  /\ UNCHANGED <<wire_out, pc, op, arg, result, ch, peer_log, budget>>
  /\ UNCHANGED rx_vars
  /\ UNCHANGED ctl_vars
  /\ UNCHANGED sys_vars

\* The peer sends telemetry, again and again.
PeerFlow ==
  /\ wire_in = <<>>
  /\ Len(rx_queue) < FlowCap
  /\ \E f \in UnsolicitedFrames : wire_in' = wire_in \o f
  /\ UNCHANGED <<wire_out, buffer, rx_pc, running, rx_queue, callbacks, rxh,
                 cb_log, peer_log, budget>>
  /\ UNCHANGED ctl_vars
  /\ UNCHANGED call_vars
  /\ UNCHANGED sys_vars

InitWait ==
  /\ InitWith(<<>>, InitCallbacks, TRUE, MaxWaits, 0, FALSE)
  /\ probe = NoProbe

\* The steps of the calling thread inside wait_for_ack.
WaitSteps(c) ==
  \/ LoopCheck(c)
  \/ GetMessage(c)
  \/ GetEmpty(c)
  \/ Commit(c)

NextWait ==
  \/ RxReadAll
  \/ RxExtract
  \/ RxLoopExit
  \/ \E o \in MainOps : \E a \in ArgsOf(o) : StartCommand("ui", o, a, TRUE)
  \/ WaitSteps("ui")
  \/ ClockExpires("ui")
  \/ PeerAck
  \/ PeerNack
  \/ PeerFlow

SpecWait == InitWait /\ [][NextWait]_vars

\* The calling thread keeps running and the clock advances; nothing is
\* asked of the peer or of the receive thread.
FairWait ==
  /\ SpecWait
  /\ WF_vars(WaitSteps("ui"))
  /\ WF_vars(ClockExpires("ui"))

\* ---- The standalone script's controller with the simulator as peer.

RPM == <<"R", "P", "M">>

CURRENT == <<"C", "U", "R", "R", "E", "N", "T">>

INVALID_COMMAND == <<"I", "N", "V", "A", "L", "I", "D", "_", "C", "O", "M", "M", "A", "N", "D">>

\* The physics steps of one run.
MaxPhysics == 2

\* random.uniform(-10, 10) for the rpm and random.uniform(-0.5, 0.5) for the
\* current, in hundredths: values near either end.
Noises == {<<900, 45>>, <<0 - 900, 0 - 45>>}

\* round(x, 1) of a value held in hundredths, in tenths.
Round1(x) == (x + 5) \div 10

\* The simulator's for loop over params: a segment with no '=' is skipped.
RECURSIVE SimParamsToData(_)
SimParamsToData(params) ==
  IF params = <<>> THEN EmptyDict
  ELSE LET front == SimParamsToData(SubSeq(params, 1, Len(params) - 1))
           param == params[Len(params)]
       IN IF Contains(param, VALUE_SEP)
          THEN LET kv == SplitFirst(param, VALUE_SEP)
               IN DictSet(front, kv[1], ParseValue(kv[2]))
          ELSE front

\* The simulator's _parse_message.
SimParse(frame) ==
  LET m == RStrip(LStrip(frame, START_CHAR), END_CHAR)
      hasSep == Contains(m, SEPARATOR)
      msg_type == IF hasSep THEN SplitFirst(m, SEPARATOR)[1] ELSE m
      data_str == IF hasSep THEN SplitFirst(m, SEPARATOR)[2] ELSE <<>>
  IN [type |-> msg_type,
      data |-> IF data_str # <<>>
               THEN SimParamsToData(Split(data_str, PARAM_SEP))
               ELSE EmptyDict]

\* The simulator's state after _handle_command on msg.
SimState(msg) ==
  CASE msg.type = SET_SPEED /\ SPEED \in DOMAIN msg.data ->
         [sim EXCEPT !.speed = msg.data[SPEED].n, !.stopped = FALSE]
    [] msg.type = SET_TORQUE /\ TORQUE \in DOMAIN msg.data ->
         [sim EXCEPT !.torque = msg.data[TORQUE].n, !.stopped = FALSE]
    [] msg.type = EMERGENCY_STOP ->
         [sim EXCEPT !.speed = 0, !.torque = 0, !.rpm = 0, !.current = 0,
                     !.stopped = TRUE]
    [] OTHER -> sim

\* A simulator that answers every command with an ACK that names nothing.
SimAnswer_Unnamed(msg) == BuildMessage(ACK, <<>>)

\* The frame _handle_command answers msg with, for the kinds the two
\* controllers send (SET_REGEN_BRAKE, GET_TEMP, GET_STATUS and GET_FAULTS are
\* sent by neither).
SimAnswer(msg) ==
  CASE msg.type \in {SET_SPEED, SET_TORQUE} ->
         IF (IF msg.type = SET_SPEED THEN SPEED ELSE TORQUE) \in DOMAIN msg.data
         THEN AckFrame(msg.type, FALSE)
         ELSE NackFrame(msg.type)
    [] msg.type = SET_MAX_CURRENT ->
         IF CURRENT \in DOMAIN msg.data
         THEN AckFrame(SET_MAX_CURRENT, FALSE)
         ELSE NackFrame(SET_MAX_CURRENT)
    [] msg.type = EMERGENCY_STOP -> AckFrame(EMERGENCY_STOP, FALSE)
    [] msg.type = RESET_FAULT -> AckFrame(RESET_FAULT, FALSE)
    [] msg.type = GET_TELEMETRY ->
         BuildMessage(DATA, <<<<RPM, FloatVal(Round1(sim.rpm), 1)>>,
                              <<CURRENT, FloatVal(Round1(sim.current), 1)>>>>)
    [] OTHER -> BuildMessage(NACK, <<<<CMD, StrVal(UNKNOWN)>>,
                                     <<REASON, StrVal(INVALID_COMMAND)>>>>)

\* The simulator's receive loop takes the oldest frame it has not handled
\* and runs _handle_command on it.
SimHandle ==
  /\ Len(peer_log) < Len(wire_out)
  /\ wire_in = <<>>
  /\ LET msg == SimParse(wire_out[Len(peer_log) + 1])
     IN /\ sim' = SimState(msg)
        /\ wire_in' = wire_in \o SimAnswer(msg)
        /\ peer_log' = Append(peer_log, msg.type)
  /\ UNCHANGED <<wire_out, buffer, rx_pc, running, rx_queue, callbacks, rxh,
                 cb_log, budget>>
  /\ UNCHANGED ctl_vars
  /\ UNCHANGED call_vars
  /\ UNCHANGED <<serial_open, sd_pc, sd_log, rx_errors, reg_log, probe, tx>>

\* _update_physics: rpm and current move a tenth of the way to their
\* targets and take their noise.
SimPhysics ==
  /\ sim.steps < MaxPhysics
  /\ \E noise \in Noises :
       sim' = [sim EXCEPT
                 !.rpm = @ + (sim.speed * 5000 - @) \div 10 + noise[1],
                 !.current = @ + (sim.torque * 50 - @) \div 10 + noise[2],
                 !.steps = @ + 1]
  /\ UNCHANGED <<wire_in, wire_out, buffer, rx_pc, running, rx_queue,
                 callbacks, rxh, cb_log, peer_log, budget>>
  /\ UNCHANGED ctl_vars
  /\ UNCHANGED call_vars
  /\ UNCHANGED <<serial_open, sd_pc, sd_log, rx_errors, reg_log, probe, tx>>

\* _send_telemetry, from _simulation_loop: the DATA frame with the rounded
\* rpm and current (the temperature, voltage and charge it also carries are
\* not part of this model).
SimTelemetry ==
  /\ budget.frames > 0
  /\ wire_in = <<>>
  /\ budget' = [budget EXCEPT !.frames = @ - 1]
  /\ wire_in' = wire_in \o
       BuildMessage(DATA, <<<<RPM, FloatVal(Round1(sim.rpm), 1)>>,
                            <<CURRENT, FloatVal(Round1(sim.current), 1)>>>>)
  /\ sim' = [sim EXCEPT !.last = [rpm |-> Round1(sim.rpm),
                                    stopped |-> sim.stopped]]
  /\ UNCHANGED <<wire_out, buffer, rx_pc, running, rx_queue, callbacks, rxh,
                 cb_log, peer_log>>
  /\ UNCHANGED ctl_vars
  /\ UNCHANGED call_vars
  /\ UNCHANGED <<serial_open, sd_pc, sd_log, rx_errors, reg_log, probe, tx>>

\* The standalone emergency_stop: send ESTOP and return, with no wait.
EmergencyStopCall(c) ==
  /\ pc[c] \in {"idle", "done"}
  /\ budget.calls > 0
  /\ budget' = [budget EXCEPT !.calls = @ - 1]
  /\ wire_out' = EmergencyStop(wire_out, TRUE)
  /\ UNCHANGED <<peer_log>>
  /\ UNCHANGED rx_vars
  /\ UNCHANGED ctl_vars
  /\ UNCHANGED call_vars
  /\ UNCHANGED sys_vars

\* The wait of caller c can only end by its timeout: the simulator has
\* handled every frame written to it, the receive loop has nothing left to
\* read or decode, and the inbox is empty.  (The simulator polls its port
\* every 10 ms and answers at once, so the second of the wait does not
\* elapse before this.)
WaitStarves(c) ==
  /\ pc[c] = "get"
  /\ rx_queue = <<>>
  /\ rx_pc = "outer"
  /\ wire_in = <<>>
  /\ Len(peer_log) = Len(wire_out)

InitSim ==
  /\ InitWith(<<>>, StandaloneCallbacks, TRUE, MaxCalls, MaxUnsolicited, TRUE)
  /\ probe = NoProbe

\* The steps of the script, of its receive thread and of the simulator.
\* The timeout branch of wait_for_ack is not among them: it is taken only
\* from a state that satisfies WaitStarves.
NextSim ==
  \/ RxReadAll
  \/ RxExtract
  \/ RxLoopExit
  \/ \E o \in StandaloneOps : \E a \in ArgsOf(o) :
       StartCommand("ui", o, a, TRUE)
  \/ EmergencyStopCall("ui")
  \/ LoopCheck("ui")
  \/ GetMessage("ui")
  \/ Commit("ui")
  \/ SimHandle
  \/ SimPhysics
  \/ SimTelemetry

SpecSim == InitSim /\ [][NextSim]_vars

\* ---- The telemetry request loop with the peer answering, and no caller.

\* The rounds of _telemetry_loop in one run.
MaxTicks == 3

\* One round of _telemetry_loop: send GET_TELEM, then sleep.
TelemetryLoop ==
  /\ budget.calls > 0
  /\ budget' = [budget EXCEPT !.calls = @ - 1]
  /\ \E tx_ok \in LinkOutcomes :
       wire_out' = SendMessage(wire_out, GET_TELEMETRY, <<>>, tx_ok)
  /\ UNCHANGED <<wire_in, buffer, rx_pc, running, rx_queue, callbacks, rxh,
                 cb_log, peer_log>>
  /\ UNCHANGED ctl_vars
  /\ UNCHANGED call_vars
  /\ UNCHANGED sys_vars

\* The peer answers the oldest GET_TELEM it has not handled with its
\* telemetry frame.
PeerTelemetry ==
  /\ Len(peer_log) < Len(wire_out)
  /\ PeerCommand = GET_TELEMETRY
  /\ wire_in = <<>>
  /\ \E f \in UnsolicitedFrames : wire_in' = wire_in \o f
  /\ peer_log' = Append(peer_log, "DATA")
  /\ UNCHANGED <<wire_out, buffer, rx_pc, running, rx_queue, callbacks, rxh,
                 cb_log, budget>>
  /\ UNCHANGED ctl_vars
  /\ UNCHANGED call_vars
  /\ UNCHANGED sys_vars

InitTelemetry ==
  /\ InitWith(<<>>, InitCallbacks, TRUE, MaxTicks, MaxUnsolicited, TRUE)
  /\ probe = NoProbe

NextTelemetry ==
  \/ TelemetryLoop
  \/ PeerTelemetry
  \/ PeerUnsolicited
  \/ RxReadAll
  \/ RxExtract
  \/ RxLoopExit

SpecTelemetry == InitTelemetry /\ [][NextTelemetry]_vars

\* ---- The dispatch table: callbacks are registered while frames arrive.

\* The calls of register_callback in one run.
MaxRegistrations == 2

\* The kinds and the handlers that are registered.
RegKinds == {DATA, PING}

RegHandlers == {"_handle_telemetry", "_handle_fault", "_handle_nack"}

\* A register_callback that keeps the callback a kind already has.
RegisterCallback_KeepsFirst(msg_type, callback) ==
  /\ Len(reg_log) < MaxRegistrations
  /\ callbacks' = IF msg_type \in DOMAIN callbacks THEN callbacks
                  ELSE DictSet(callbacks, msg_type, callback)
  /\ reg_log' = Append(reg_log, [handler |-> callback, kind |-> msg_type])
  /\ UNCHANGED <<wire_in, wire_out, buffer, rx_pc, running, rx_queue, rxh,
                 cb_log, peer_log, budget>>
  /\ UNCHANGED ctl_vars
  /\ UNCHANGED call_vars
  /\ UNCHANGED <<serial_open, sd_pc, sd_log, rx_errors, sim, probe, tx>>

\* register_callback: self.callbacks[msg_type] = callback.
RegisterCallback(msg_type, callback) ==
  /\ Len(reg_log) < MaxRegistrations
  /\ callbacks' = DictSet(callbacks, msg_type, callback)
  /\ reg_log' = Append(reg_log, [handler |-> callback, kind |-> msg_type])
  /\ UNCHANGED <<wire_in, wire_out, buffer, rx_pc, running, rx_queue, rxh,
                 cb_log, peer_log, budget>>
  /\ UNCHANGED ctl_vars
  /\ UNCHANGED call_vars
  /\ UNCHANGED <<serial_open, sd_pc, sd_log, rx_errors, sim, probe, tx>>

\* EVProtocol.__init__ has run and nothing is registered yet.
InitRegister ==
  /\ InitWith(<<>>, EmptyDict, TRUE, 0, MaxFrames, TRUE)
  /\ probe = NoProbe

NextRegister ==
  \/ \E k \in RegKinds, h \in RegHandlers : RegisterCallback(k, h)
  \/ RxReadAll
  \/ RxExtract
  \/ RxLoopExit
  \/ PeerFrame

SpecRegister == InitRegister /\ [][NextRegister]_vars

\* ------------------------------------------------------ lifecycle claims

\* C16: once running is false, the receive loop emits no frame, puts nothing
\* in the inbox and calls no subscriber.
C16_NoFrameAfterStop ==
  [][~running => /\ rxh.log' = rxh.log
                 /\ rx_queue' = rx_queue
                 /\ cb_log' = cb_log]_vars

\* Once _receive_loop has returned, nothing more is published.
NoFrameAfterReturn ==
  [][rx_pc = "stopped" => /\ rxh.log' = rxh.log
                          /\ rx_queue' = rx_queue
                          /\ cb_log' = cb_log]_vars

\* The number of entries of log equal to x.
Occurrences(log, x) == Cardinality({i \in 1..Len(log) : log[i] = x})

\* C17: a shutdown that has passed its first step has made one attempt to
\* write ESTOP, and a port that is closed was closed after that attempt.
C17_EstopBeforeClose ==
  /\ sd_pc # "none" => /\ sd_log # <<>>
                       /\ sd_log[1] = "estop"
                       /\ Occurrences(sd_log, "estop") = 1
  /\ ~serial_open => sd_log = <<"estop", "close">>

\* The scenario of C17: the transport failed while reading, the write of
\* ESTOP failed too, and the port was closed after the attempt.
C17_Witness ==
  /\ ~serial_open
  /\ rx_errors # <<>>
  /\ ~HasEstop(wire_out)
  /\ sd_log = <<"estop", "close">>

\* C19: a transport error leaves the buffer as it was and the loop at its
\* outer while with running unchanged; the loop has returned only if stop()
\* cleared running; and whenever the loop has finished with a chunk, the
\* frames emitted and the text kept are those of the text received, errors
\* or not.
C19_TransportErrorSurvived ==
  /\ [][rx_errors' # rx_errors =>
         /\ buffer' = buffer
         /\ rx_pc' = "outer"
         /\ running' = running]_vars
  /\ [](rx_pc = "stopped" => (~running /\ sd_pc \in {"stop", "closed"}))
  /\ [](Settled => /\ rxh.log = ExtractAll(rxh.text).frames
                    /\ buffer = ExtractAll(rxh.text).rest)

\* The scenario of C19: the transport failed while the buffer held the first
\* part of a frame, and the read after the error brought the rest: the frame
\* came out whole.
C19_Witness ==
  /\ Settled
  /\ Len(rx_errors) = 1
  /\ Partial(rx_errors[1])
  /\ rxh.buf0 = rx_errors[1]
  /\ rxh.buf0 \o rxh.data = HotFrame
  /\ rxh.log = <<HotFrame>>
  /\ faults = <<StrVal(OVERHEAT)>>

\* ------------------------------------------------ dispatch table claims

\* The registrations made for kind k, in order.
IsFor(k) == {i \in 1..Len(reg_log) : reg_log[i].kind = k}

\* The callback registered last for kind k (k has been registered).
LastRegistered(k) ==
  reg_log[CHOOSE i \in IsFor(k) : \A j \in IsFor(k) : j <= i].handler

\* C21: a step that invokes a callback invokes one, for the message it has
\* just put in the inbox, and it is the callback registered last for that
\* message's kind; a message whose kind was never registered invokes none.
C21_LastRegisteredOnly ==
  [][/\ cb_log' # cb_log =>
          /\ Len(cb_log') = Len(cb_log) + 1
          /\ Len(rxh.put') = Len(rxh.put) + 1
          /\ cb_log'[Len(cb_log')].msg = rxh.put'[Len(rxh.put')]
          /\ IsFor(cb_log'[Len(cb_log')].msg.type) # {}
          /\ cb_log'[Len(cb_log')].handler =
               LastRegistered(cb_log'[Len(cb_log')].msg.type)
     /\ (rxh.put' # rxh.put /\ cb_log' = cb_log) =>
          IsFor(rxh.put'[Len(rxh.put')].type) = {}]_vars

\* The scenario of C21: DATA was registered with the fault subscriber and
\* then with the telemetry subscriber; a hot DATA frame went to the
\* telemetry subscriber alone.
C21_Witness ==
  /\ Len(reg_log) >= 2
  /\ reg_log[1] = [handler |-> "_handle_fault", kind |-> DATA]
  /\ reg_log[2] = [handler |-> "_handle_telemetry", kind |-> DATA]
  /\ Len(cb_log) = 1
  /\ cb_log[1].handler = "_handle_telemetry"
  /\ cb_log[1].msg = ParseMessage(HotFrame)
  /\ faults = <<StrVal(OVERHEAT)>>

\* ------------------------------------------------ controller state claims

\* The step changes the telemetry map, the fault list or the connected flag.
StateWritten ==
  telemetry' # telemetry \/ faults' # faults \/ connected' # connected

\* C22: every step that changes the telemetry map, the fault list or the
\* connected flag is a step of the receive thread in which a subscriber runs.
C22_OnlySubscribersWrite ==
  [][StateWritten => cb_log' # cb_log]_vars

\* Apart from the return of an acknowledged reset_faults, which empties the
\* fault list on the caller's thread, the subscribers are the only writers.
OnlySubscribersAndResetWrite ==
  [][StateWritten =>
       \/ cb_log' # cb_log
       \/ ResetAcknowledged /\ faults' = <<>>
                            /\ UNCHANGED <<telemetry, connected>>]_vars

\* A FAULT that the receive thread handled after the acknowledgement of the
\* reset had arrived is gone from the list once reset_faults has returned.
ResetWipesLaterFault ==
  /\ pc["aux"] = "done"
  /\ result["aux"]
  /\ faults = <<>>
  /\ Len(rxh.put) = 2
  /\ rxh.put[1].type = ACK
  /\ rxh.put[2] = ParseMessage(FaultFrame)

\* ----------------------------------------------------------- inbox claims

\* A bound for the inbox.
InboxBound == 3

\* C23: the inbox never holds more than InboxBound messages.
C23_InboxBounded == Len(rx_queue) <= InboxBound

\* With no caller waiting, every message ever put in the inbox is still in
\* it: the inbox grows by one with each frame received.
InboxKeepsEverything == rx_queue = rxh.put

\* ------------------------------------------------------- simulator claims

HandlesEstop ==
  /\ Len(peer_log') = Len(peer_log) + 1
  /\ peer_log'[Len(peer_log')] = EMERGENCY_STOP

\* C25: the simulator's handling of ESTOP sets speed, torque, rpm and
\* current to 0 and sends ACK=ESTOP; and every RPM it reports after that,
\* before it handles a SET_SPEED or a SET_TORQUE, is below 10.
C25_StoppedRpmBelowTen ==
  /\ [][HandlesEstop =>
         /\ sim'.speed = 0 /\ sim'.torque = 0
         /\ sim'.rpm = 0 /\ sim'.current = 0
         /\ wire_in' = wire_in \o AckFrame(EMERGENCY_STOP, FALSE)]_vars
  /\ [](sim.last.stopped => sim.last.rpm < 100)

\* The handling of ESTOP itself does what is claimed.
EstopZeroes ==
  [][HandlesEstop =>
       /\ sim'.speed = 0 /\ sim'.torque = 0
       /\ sim'.rpm = 0 /\ sim'.current = 0
       /\ wire_in' = wire_in \o AckFrame(EMERGENCY_STOP, FALSE)]_vars

\* ----------------------------------------------------- publication claims

\* Position k of t closes a complete frame: a closing delimiter with an
\* opening delimiter before it and no delimiter in between.
ClosesFrame(t, k) ==
  /\ t[k] = END_CHAR
  /\ \E j \in 1..(k - 1) : t[j] = START_CHAR /\ NoDelimiter(t, j + 1, k - 1)

\* The complete frame of t that position k closes.
FrameClosedAt(t, k) ==
  SubSeq(t, CHOOSE j \in 1..(k - 1) :
              t[j] = START_CHAR /\ NoDelimiter(t, j + 1, k - 1), k)

\* The complete frames of t, in the order in which they end.
CompleteFrames(t) ==
  LET ends == SelectSeq([k \in 1..Len(t) |-> k], LAMBDA k : ClosesFrame(t, k))
  IN [n \in 1..Len(ends) |-> FrameClosedAt(t, ends[n])]

\* C26: whenever the loop has finished with a chunk, the messages put in
\* the inbox are those of the complete frames of the text received, each
\* once and in the order in which the frames end, and the subscribers were
\* invoked with them in that order.
C26_PublishedOnceInOrder ==
  Settled =>
    /\ rxh.put = [i \in 1..Len(CompleteFrames(rxh.text)) |->
                    ParseMessage(CompleteFrames(rxh.text)[i])]
    /\ Dispatched = SelectSeq(rxh.put, Subscribed)

\* What the loop emits, as it delimits frames (from the first opening
\* delimiter to the first closing delimiter after it), is published once and
\* in order.
EmittedOnceInOrder == Settled => AllProcessed

\* ------------------------------------------------------ termination claim

\* C27: every wait_for_ack returns: a caller that is inside the wait is
\* eventually out of it, whatever arrives in the inbox.
C27_WaitReturns ==
  (Waiting("ui") \/ pc["ui"] = "acked") ~> Returned("ui")

\* The scenario of C27: the wait ended with false after its timeout while
\* telemetry was still arriving (the inbox is not empty).
C27_Witness ==
  /\ Returned("ui")
  /\ ~result["ui"]
  /\ expired["ui"]
  /\ Len(rx_queue) = FlowCap

\* ------------------------------------------------------ fault stop claim

\* The step is a pass of the inner while on a FAULT frame.
FaultPass ==
  /\ rx_pc = "inner"
  /\ buffer' # buffer
  /\ ExtractStep(buffer).found
  /\ ParseMessage(ExtractStep(buffer).message).type = FAULT

\* C28: the pass of the receive loop that handles a FAULT frame at most
\* transmits one ESTOP frame: it takes nothing out of the inbox (the frame
\* is added to it), touches no caller's wait and leaves the loop running;
\* and whenever the loop has finished with a chunk, every frame received,
\* those after a FAULT included, has been decoded, queued and dispatched.
C28_FaultStopOnlyTransmits ==
  /\ [](Settled => AllProcessed)
  /\ [][FaultPass =>
         /\ rx_queue' = Append(rx_queue,
                               ParseMessage(ExtractStep(buffer).message))
         /\ rx_pc' = "inner"
         /\ wire_out' \in {wire_out,
                            SendMessage(wire_out, EMERGENCY_STOP, <<>>, TRUE)}
         /\ UNCHANGED <<pc, op, arg, expired, result>>]_vars

\* The scenario of C28: a FAULT frame came first and its subscriber sent the
\* emergency stop; the DATA frame that came after it was queued and
\* dispatched, and raised OVERHEAT.
C28_Witness ==
  /\ Settled
  /\ Len(cb_log) = 2
  /\ cb_log[1].msg = ParseMessage(FaultFrame)
  /\ cb_log[1].after.wire_out # cb_log[1].before.wire_out
  /\ cb_log[2].msg = ParseMessage(HotFrame)
  /\ rx_queue = <<ParseMessage(FaultFrame), ParseMessage(HotFrame)>>
  /\ faults = <<StrVal(OVERCURRENT), StrVal(OVERHEAT)>>

\* --------------------------------------------------- concurrent wait claim

\* The subscriber's part was done with entry e of the callback log: the
\* telemetry handler merged the message's data and marked the link connected,
\* the fault handler has the message's fault in the list.
Delivered29(e) ==
  /\ e.msg.type = DATA =>
        /\ e.after.telemetry = DictUpdate(e.before.telemetry, e.msg.data)
        /\ e.after.connected
  /\ e.msg.type = FAULT =>
        InList(e.after.faults, DictGet(e.msg.data, FAULT, StrVal(UNKNOWN)))

\* C29: in every state, whatever the waiting caller has taken out of the
\* inbox, the subscribers have been called with every decoded message of a
\* subscribed kind, in order, and each DATA or FAULT message had its
\* handler's effect on the controller's state.
C29_DeliveredDespiteWait ==
  /\ Dispatched = SelectSeq(rxh.put, Subscribed)
  /\ \A n \in 1..Len(cb_log) : Delivered29(cb_log[n])

\* The scenario of C29: a DATA and a FAULT message arrived while the reset
\* was waiting for its acknowledgement, the wait took both out of the inbox,
\* and both reached their subscribers.
C29_Witness ==
  /\ Waiting("aux")
  /\ ch["aux"].stale = 0
  /\ rxh.put = <<ParseMessage(HotFrame), ParseMessage(FaultFrame)>>
  /\ rx_queue = <<>>
  /\ Len(cb_log) = 2
  /\ TEMP \in DOMAIN telemetry
  /\ telemetry[TEMP] = FloatVal(850, 1)
  /\ faults = <<StrVal(OVERHEAT), StrVal(OVERCURRENT)>>

\* ---- The decoder alone: one raw frame arrives and the receive loop decodes
\* it.

\* The longest frame body made of any characters, and the most segments of a
\* body made of segments.
MaxBody == 5

MaxSegments == 3

\* The three separators, a letter and a digit.
BodyChars == {SEPARATOR, PARAM_SEP, VALUE_SEP, "K", "1"}

\* Segments: empty, a bare key, key and value, a second key, a value with
\* the value separator in it, a value that is the kind separator, an empty
\* key.
SegmentTexts ==
  {<<>>, <<"K">>, <<"J">>, <<"K", "=", "1">>, <<"K", "=", "J">>,
   <<"J", "=", "1">>, <<"K", "=", "1", "=", "1">>, <<"K", "=", ":">>,
   <<"=", "1">>}

KindTexts == {<<>>, <<"T">>}

\* The payloads of at most k segments.
RECURSIVE PayloadTextsOf(_)
PayloadTextsOf(k) ==
  IF k = 1 THEN SegmentTexts
  ELSE LET shorter == PayloadTextsOf(k - 1)
       IN shorter \cup {t \o <<PARAM_SEP>> \o g : t \in shorter,
                                                  g \in SegmentTexts}

DecodeBodies ==
  (UNION {[1..k -> BodyChars] : k \in 0..MaxBody})
    \cup {t \o <<SEPARATOR>> \o q : t \in KindTexts,
                                    q \in PayloadTextsOf(MaxSegments)}

InitDecode ==
  /\ \E b \in DecodeBodies :
       InitWith(<<START_CHAR>> \o b \o <<END_CHAR>>, InitCallbacks, TRUE,
                0, 0, TRUE)
  /\ probe = NoProbe

NextDecode ==
  \/ RxReadAll
  \/ RxExtract
  \/ RxLoopExit

SpecDecode == InitDecode /\ [][NextDecode]_vars

\* ----------------------------------------------------------- decode claim

\* The first position of t that holds sep (t holds it).
FirstOf(t, sep) ==
  CHOOSE i \in 1..Len(t) : t[i] = sep /\ \A j \in 1..(i - 1) : t[j] # sep

\* What stands between the delimiters of a raw frame.
BodyOf(frame) == SubSeq(frame, 2, Len(frame) - 1)

StatedKind(b) ==
  IF Contains(b, ":") THEN SubSeq(b, 1, FirstOf(b, ":") - 1) ELSE b

StatedPayload(b) ==
  IF Contains(b, ":") THEN SubSeq(b, FirstOf(b, ":") + 1, Len(b)) ELSE <<>>

\* Where the segments of a payload start: at its start and after every ';'
\* (an empty payload has no segment).
SegmentStarts(q) ==
  IF q = <<>> THEN {}
  ELSE {1} \cup {i + 1 : i \in {j \in 1..Len(q) : q[j] = ";"}}

\* The segment that starts at a: up to the next ';' or the payload's end.
SegmentAt(q, a) ==
  LET stops == {i \in a..Len(q) : q[i] = ";"}
  IN IF stops = {} THEN SubSeq(q, a, Len(q))
     ELSE SubSeq(q, a, (CHOOSE i \in stops : \A j \in stops : i <= j) - 1)

StatedKey(g) ==
  IF Contains(g, "=") THEN SubSeq(g, 1, FirstOf(g, "=") - 1) ELSE g

StatedValue(g) ==
  IF Contains(g, "=")
  THEN ParseValue(SubSeq(g, FirstOf(g, "=") + 1, Len(g)))
  ELSE TrueVal

\* The start of the last segment of q whose key is k.
LastWith(q, k) ==
  LET starts == {a \in SegmentStarts(q) : StatedKey(SegmentAt(q, a)) = k}
  IN CHOOSE a \in starts : \A c \in starts : c <= a

\* Message m is frame f decoded by the stated rules.
DecodedAsStated(f, m) ==
  LET b == BodyOf(f)
      q == StatedPayload(b)
      keys == {StatedKey(SegmentAt(q, a)) : a \in SegmentStarts(q)}
  IN /\ m.type = StatedKind(b)
     /\ DOMAIN m.data = keys
     /\ \A k \in keys : m.data[k] = StatedValue(SegmentAt(q, LastWith(q, k)))

\* C30: the message decoded from a raw frame has as kind what stands before
\* the first ':', and as payload one entry per key of the segments between
\* the ';' of what stands after it: the key is what stands before the
\* segment's first '=', the value what stands after it, or true for a segment
\* with no '='; a key that occurs in several segments has the value of the
\* last of them.
C30_DecodeSplits ==
  \A n \in 1..Len(rxh.put) : DecodedAsStated(rxh.log[n], rxh.put[n])

\* The scenario of C30: <T:K=:;K;K=1=1> was decoded: a second ':' in the
\* payload, key K three times, once with no '=', last with a second '='.
C30_Witness ==
  /\ rxh.log = <<<<"<", "T", ":", "K", "=", ":", ";", "K", ";",
                   "K", "=", "1", "=", "1", ">">>>>
  /\ Len(rxh.put) = 1
  /\ rxh.put[1].type = <<"T">>
  /\ DOMAIN rxh.put[1].data = {<<"K">>}
  /\ rxh.put[1].data[<<"K">>] = StrVal(<<"1", "=", "1">>)

\* ------------------------------------------------------- decoder claims

\* C31: for every raw frame decoded, the simulator's decoder returns the kind
\* and the payload map the controller's decoder returned.
C31_DecodersAgree ==
  \A n \in 1..Len(rxh.put) : SimParse(rxh.log[n]) = rxh.put[n]

\* Every segment of the frame's payload holds the value separator.
AllKeyed(frame) ==
  LET q == StatedPayload(BodyOf(frame))
  IN \A a \in SegmentStarts(q) : Contains(SegmentAt(q, a), "=")

\* The two decoders agree on the kind of every frame, and on the payload of
\* the frames whose segments all hold the value separator.
DecodersAgreeOnKeyed ==
  \A n \in 1..Len(rxh.put) :
    /\ SimParse(rxh.log[n]).type = rxh.put[n].type
    /\ AllKeyed(rxh.log[n]) => SimParse(rxh.log[n]) = rxh.put[n]

\* ---- The port, byte by byte: three threads call send_message with no lock
\* between them; serial.write hands the frame to the port, which takes it
\* whole or in parts.

\* The most frames a thread sends, and the most bytes the port takes of a
\* write it does not take whole.
MaxSends == 1

TxChunk == 4

\* The frame each thread sends: the periodic request, a command, the
\* emergency stop.
FrameOf(t) ==
  CASE t = "telemetry" -> BuildMessage(GET_TELEMETRY, <<>>)
    [] t = "ui" -> BuildMessage(RESET_FAULT, <<>>)
    [] OTHER -> BuildMessage(EMERGENCY_STOP, <<>>)

\* How many frames thread t has handed to serial.write.
SentBy(t) == Cardinality({i \in 1..Len(tx.sent) : tx.sent[i] = FrameOf(t)})

\* send_message up to serial.write: the frame is built and handed over.
TxSend(t) ==
  /\ tx.left[t] = <<>>
  /\ SentBy(t) < MaxSends
  /\ tx' = [tx EXCEPT !.left[t] = FrameOf(t),
                      !.sent = Append(@, FrameOf(t))]
  /\ UNCHANGED <<wire_in, wire_out, buffer, rx_pc, running, rx_queue,
                 callbacks, rxh, cb_log, peer_log, budget>>
  /\ UNCHANGED ctl_vars
  /\ UNCHANGED call_vars
  /\ UNCHANGED <<serial_open, sd_pc, sd_log, rx_errors, reg_log, sim, probe>>

\* serial.write: the port takes the first n bytes of what is left of the
\* thread's frame.
TxWrite(t, n) ==
  /\ tx.left[t] # <<>>
  /\ n \in 1..Len(tx.left[t])
  /\ tx' = [tx EXCEPT !.bytes = @ \o SubSeq(tx.left[t], 1, n),
                      !.left[t] = SubSeq(@, n + 1, Len(@)),
                      !.parts = @ \/ n < Len(tx.left[t])]
  /\ UNCHANGED <<wire_in, wire_out, buffer, rx_pc, running, rx_queue,
                 callbacks, rxh, cb_log, peer_log, budget>>
  /\ UNCHANGED ctl_vars
  /\ UNCHANGED call_vars
  /\ UNCHANGED <<serial_open, sd_pc, sd_log, rx_errors, reg_log, sim, probe>>

InitLink ==
  /\ InitWith(<<>>, InitCallbacks, TRUE, 0, 0, FALSE)
  /\ probe = NoProbe

NextLink ==
  \/ \E t \in Writers : TxSend(t)
  \/ \E t \in Writers :
       \E n \in {Min(TxChunk, Len(tx.left[t])), Len(tx.left[t])} : TxWrite(t, n)

SpecLink == InitLink /\ [][NextLink]_vars

\* -------------------------------------------------------------- link claim

\* No write is under way.
LinkQuiet == \A t \in Writers : tx.left[t] = <<>>

\* The frames the peer's receive loop extracts from the bytes on the link.
PeerExtracts == ExtractAll(tx.bytes).frames

\* C32: the frames the peer extracts from the link are the frames that were
\* handed to serial.write, each unchanged and as many times as it was sent.
C32_FramesNotInterleaved ==
  LinkQuiet =>
    /\ Len(PeerExtracts) = Len(tx.sent)
    /\ \A t \in Writers : Occurrences(PeerExtracts, FrameOf(t)) = SentBy(t)

\* When the port took every write whole, the frames are on the link
\* unchanged.
WholeWritesContiguous ==
  (LinkQuiet /\ ~tx.parts) =>
    /\ Len(PeerExtracts) = Len(tx.sent)
    /\ \A t \in Writers : Occurrences(PeerExtracts, FrameOf(t)) = SentBy(t)

\* ------------------------------------------------------------ reset claim

\* Entry n of the callback log is a FAULT message handled after the
\* acknowledgement of RESET_FAULT had been received.
FaultAfterAck(n) ==
  /\ cb_log[n].msg.type = FAULT
  /\ \E i \in 1..(n - 1) : IsAckFor(cb_log[i].msg, RESET_FAULT)

\* C33: once reset_faults has returned true, every fault the receive thread
\* added after the acknowledgement had been received is in the fault list.
C33_LaterFaultSurvivesReset ==
  (pc["aux"] = "done" /\ op["aux"] = "reset_faults" /\ result["aux"]) =>
    \A n \in 1..Len(cb_log) :
      FaultAfterAck(n) =>
        InList(faults, DictGet(cb_log[n].msg.data, FAULT, StrVal(UNKNOWN)))

\* A successful reset leaves the faults that were added after it returned.
FaultAfterReturnStays ==
  [][(pc["aux"] = "done" /\ result["aux"]) =>
       \A i \in 1..Len(faults) : InList(faults', faults[i])]_vars

\* ---- The main application's controller with the simulator as its peer, on
\* a link that loses nothing.

\* The timeout of c's wait elapses once the simulator has answered all it
\* was sent and nothing of its answers is left to read.
SimTimeout(c) == WaitStarves(c) /\ TimeoutElapses(c)

InitMainSim ==
  /\ InitWith(<<>>, InitCallbacks, TRUE, MaxCalls, 0, TRUE)
  /\ probe = NoProbe

NextMainSim ==
  \/ RxReadAll
  \/ RxExtract
  \/ RxLoopExit
  \/ \E o \in MainOps : \E a \in ArgsOf(o) : StartCommand("ui", o, a, TRUE)
  \/ LoopCheck("ui")
  \/ GetMessage("ui")
  \/ GetEmpty("ui")
  \/ Commit("ui")
  \/ SimTimeout("ui")
  \/ SimHandle

SpecMainSim == InitMainSim /\ [][NextMainSim]_vars

\* ------------------------------------------------- main and simulator claim

\* C34: every confirmable command of the main controller that has returned,
\* with the simulator as peer, returned true and left its value stored (the
\* limit in the configuration, the fault list empty).
C34_SimulatorConfirmsMain ==
  Returned("ui") =>
    /\ result["ui"]
    /\ op["ui"] = "set_max_throttle" =>
         config.max_throttle = CmdValue(op["ui"], arg["ui"])
    /\ op["ui"] = "set_current_limit" => config.current_limit = arg["ui"]
    /\ op["ui"] = "reset_faults" => faults = <<>>

\* What the simulator does confirm: reset_faults returns true, and the two
\* limit commands return false with the configuration as it was.
SimulatorConfirmsResetOnly ==
  Returned("ui") =>
    /\ result["ui"] <=> op["ui"] = "reset_faults"
    /\ config = DefaultConfig(TRUE)

\* -------------------------------------------------------- connected claim

\* A DATA message has been handled.
DataHandled == \E n \in 1..Len(cb_log) : cb_log[n].msg.type = DATA

\* C35: the connected flag is false until the first DATA message has been
\* handled and true from then on: it is true exactly when a DATA message has
\* been handled, and no step takes it from true to false.
C35_ConnectedLatches ==
  /\ [](connected <=> DataHandled)
  /\ [][connected => connected']_vars

\* The scenario of C35: the first frame was DATA and set the flag; a FAULT
\* was handled after it and a reset timed out, and the flag is still true.
C35_Witness ==
  /\ connected
  /\ Len(cb_log) = 2
  /\ cb_log[1].msg.type = DATA
  /\ ~cb_log[1].before.connected
  /\ cb_log[2].msg.type = FAULT
  /\ Returned("aux")
  /\ expired["aux"]
  /\ ~result["aux"]

=============================================================================
